---- MODULE Spec2Model ----
(***************************************************************************)
(* Event-normalization and session-continuity layer of template-agent:     *)
(* routes/stream.py (message_generator), core/manager.py (AgentManager),   *)
(* core/agent_utils.py (message conversion) and core/storage.py (thread    *)
(* registry).                                                              *)
(***************************************************************************)
EXTENDS Integers, Sequences, FiniteSets, TLC

(***************************************************************************)
(* Python values.  None is Python's None, NoKey marks a key that a dict    *)
(* does not have, EmptyDict is {}.  A call either returns a value or       *)
(* raises an exception.                                                    *)
(***************************************************************************)
None == "<None>"

NoKey == "<missing>"

EmptyDict == [k \in {} |-> k]

Ok(v) == [ok |-> TRUE, val |-> v]

Raise(e) == [ok |-> FALSE, exc |-> e]

\* truth value of an optional string: None and "" are falsy
TruthyStr(s) == s # None /\ s # ""

\* dict.get(key): None when the key is absent
Get(d, key) == IF key \in DOMAIN d THEN d[key] ELSE None

\* dict.update(upd) applied to base: the keys of upd win
DictUpdate(base, upd) == upd @@ base

(***************************************************************************)
(* Message content: a plain string or a list of items; an item is a plain  *)
(* string or a dict that may have the keys "type" and "text".              *)
(***************************************************************************)
StrC(s) == [k |-> "str", s |-> s]

ListC(items) == [k |-> "list", items |-> items]

StrItem(s) == [k |-> "str", s |-> s]

DictItem(type, text) == [k |-> "dict", type |-> type, text |-> text]

\* truth value of a content: "" and [] are falsy
TruthyContent(c) == IF c.k = "str" THEN c.s # "" ELSE c.items # <<>>

\* the Python dict an item stands for
ItemAsDict(it) ==
    (IF it.type # NoKey THEN [type |-> it.type] ELSE EmptyDict)
    @@ (IF it.text # NoKey THEN [text |-> it.text] ELSE EmptyDict)

\* mutant: the text field of every dict item is taken, whatever its tag
RECURSIVE JoinAnyText(_)
JoinAnyText(items) ==
    IF items = <<>> THEN Ok("")
    ELSE LET it == Head(items)
             rest == JoinAnyText(Tail(items))
         IN  IF ~rest.ok THEN rest
             ELSE IF it.k = "str" THEN Ok(it.s \o rest.val)
             ELSE IF it.text # NoKey THEN Ok(it.text \o rest.val)
             ELSE rest

RECURSIVE JoinText(_)
JoinText(items) ==
    IF items = <<>> THEN Ok("")
    ELSE LET it == Head(items)
             rest == JoinText(Tail(items))
         IN  IF it.k = "str"
             THEN (IF rest.ok THEN Ok(it.s \o rest.val) ELSE rest)
             ELSE IF it.type = NoKey THEN Raise("KeyError")
             ELSE IF it.type = "text"
             THEN (IF it.text = NoKey THEN Raise("KeyError")
                   ELSE IF rest.ok THEN Ok(it.text \o rest.val) ELSE rest)
             ELSE rest

convert_message_content_to_string(content) ==
    IF content.k = "str" THEN Ok(content.s) ELSE JoinText(content.items)

\* mutant: every dict item is removed, not only those tagged tool_use
RECURSIVE DropDicts(_)
DropDicts(items) ==
    IF items = <<>> THEN Ok(<<>>)
    ELSE LET it == Head(items)
             rest == DropDicts(Tail(items))
         IN  IF it.k = "str" THEN Ok(<<it>> \o rest.val) ELSE rest

RECURSIVE DropToolUse(_)
DropToolUse(items) ==
    IF items = <<>> THEN Ok(<<>>)
    ELSE LET it == Head(items)
             rest == DropToolUse(Tail(items))
         IN  IF it.k = "dict" /\ it.type = NoKey THEN Raise("KeyError")
             ELSE IF ~rest.ok THEN rest
             ELSE IF it.k = "str" \/ it.type # "tool_use"
             THEN Ok(<<it>> \o rest.val)
             ELSE rest

remove_tool_calls(content) ==
    IF content.k = "str" THEN Ok(content)
    ELSE LET r == DropToolUse(content.items)
         IN  IF r.ok THEN Ok(ListC(r.val)) ELSE r

(***************************************************************************)
(* Raw (engine) messages and the normalized ChatMessage.                   *)
(***************************************************************************)
RawMessage(cls, content) ==
    [cls |-> cls, content |-> content, tool_calls |-> <<>>,
     tool_call_chunks |-> <<>>, additional_kwargs |-> EmptyDict,
     response_metadata |-> EmptyDict, tool_call_id |-> None,
     role |-> None, name |-> None]

HumanMessage(content) == RawMessage("HumanMessage", content)

AIMessage(content) == RawMessage("AIMessage", content)

AIMessageChunk(content) == RawMessage("AIMessageChunk", content)

ToolMessage(content, name, tool_call_id) ==
    [RawMessage("ToolMessage", content) EXCEPT
        !.name = name, !.tool_call_id = tool_call_id]

LangchainChatMessage(role, content) ==
    [RawMessage("ChatMessage", content) EXCEPT !.role = role]

SystemMessage(content) == RawMessage("SystemMessage", content)

\* a (key, value) pair standing for one field of an AI message under construction
Pair(key, value) == [cls |-> "tuple", key |-> key, value |-> value]

IsTuple(m) == m.cls = "tuple"

\* isinstance(m, AIMessage): AIMessageChunk is a subclass of AIMessage
IsAIMessage(m) == m.cls \in {"AIMessage", "AIMessageChunk"}

HasToolCalls(m) == IsAIMessage(m)

HasToolCallId(m) == m.cls = "ToolMessage"

\* a tool call dict of the raw message; NoKey marks an absent key
RawToolCall(name, args, id) == [name |-> name, args |-> args, id |-> id]

ToolCall(name, args, id) ==
    [name |-> name, args |-> args, id |-> id, type |-> "tool_call"]

ChatMessage(type, content) ==
    [type |-> type, content |-> content, tool_calls |-> <<>>,
     tool_call_id |-> None, run_id |-> None, thread_id |-> None,
     session_id |-> None, ai_call_id |-> None,
     response_metadata |-> EmptyDict, custom_data |-> EmptyDict]

\* mutant: an entry is kept as soon as it has a name
RECURSIVE FormatNamedToolCalls(_)
FormatNamedToolCalls(tcs) ==
    IF tcs = <<>> THEN <<>>
    ELSE LET tc == Head(tcs)
             rest == FormatNamedToolCalls(Tail(tcs))
         IN  IF tc.name # NoKey
             THEN <<ToolCall(tc.name, tc.args,
                             IF tc.id # NoKey /\ TruthyStr(tc.id)
                             THEN tc.id ELSE None)>> \o rest
             ELSE rest

RECURSIVE FormatToolCalls(_)
FormatToolCalls(tcs) ==
    IF tcs = <<>> THEN <<>>
    ELSE LET tc == Head(tcs)
             rest == FormatToolCalls(Tail(tcs))
         IN  IF tc.name # NoKey /\ tc.args # NoKey
             THEN <<ToolCall(tc.name, tc.args,
                             IF tc.id # NoKey /\ TruthyStr(tc.id)
                             THEN tc.id ELSE None)>> \o rest
             ELSE rest

\* message.content[0] of a chat message with role "custom", given to the
\* dict-typed field custom_data
FirstAsCustomData(content) ==
    IF content.k = "str"
    THEN (IF content.s = "" THEN Raise("IndexError") ELSE Raise("ValidationError"))
    ELSE IF content.items = <<>> THEN Raise("IndexError")
    ELSE IF Head(content.items).k = "str" THEN Raise("ValidationError")
    ELSE Ok(ItemAsDict(Head(content.items)))

langchain_to_chat_message(message) ==
    IF IsTuple(message) THEN Raise("ValueError")
    ELSE IF message.cls = "HumanMessage"
    THEN LET c == convert_message_content_to_string(message.content)
         IN  IF c.ok THEN Ok(ChatMessage("human", c.val)) ELSE c
    ELSE IF IsAIMessage(message)
    THEN LET c == convert_message_content_to_string(message.content)
             ak == message.additional_kwargs
             tool_calls ==
                 message.tool_calls
                 \o (IF "tool_calls" \in DOMAIN ak THEN ak["tool_calls"] ELSE <<>>)
             rm0 == message.response_metadata
             rm == IF "response_metadata" \in DOMAIN ak
                   THEN DictUpdate(rm0, ak["response_metadata"]) ELSE rm0
         IN  IF ~c.ok THEN c
             ELSE Ok([ChatMessage("ai", c.val) EXCEPT
                        !.tool_calls = FormatToolCalls(tool_calls),
                        !.response_metadata = rm,
                        !.ai_call_id = IF ak # EmptyDict
                                       THEN Get(ak, "ai_call_id") ELSE None])
    ELSE IF message.cls = "ToolMessage"
    THEN LET c == convert_message_content_to_string(message.content)
         IN  IF c.ok
             THEN Ok([ChatMessage("tool", c.val) EXCEPT
                        !.tool_call_id = message.tool_call_id])
             ELSE c
    ELSE IF message.cls = "ChatMessage"
    THEN IF message.role = "custom"
         THEN LET d == FirstAsCustomData(message.content)
              IN  IF d.ok
                  THEN Ok([ChatMessage("custom", "") EXCEPT !.custom_data = d.val])
                  ELSE d
         ELSE Raise("ValueError")
    ELSE Raise("ValueError")

(***************************************************************************)
(* AgentManager: conversion of engine events to the simplified format.     *)
(***************************************************************************)
MessageEvent(content) == [type |-> "message", content |-> content]

TokenEvent(text) == [type |-> "token", content |-> text]

ErrorEvent(content) == [type |-> "error", content |-> content]

\* the dict yielded by the except branch of the per-message try
MessageFormattingError ==
    ErrorEvent([message |-> "Message formatting error", recoverable |-> TRUE])

\* the dict yielded by the except branch of stream_response
AgentError ==
    ErrorEvent([message |-> "Internal server error", recoverable |-> FALSE,
                error_type |-> "agent_error"])

\* the dict yielded by the except branch of message_generator
StreamError ==
    ErrorEvent([message |-> "Internal server error", recoverable |-> FALSE,
                error_type |-> "stream_error"])

\* mutant: every message goes out as an AI message, its other fields kept
_convert_chat_message_as_ai(chat_message, thread_id, session_id) ==
    [type |-> "ai", content |-> chat_message.content]
    @@ (IF chat_message.tool_calls # <<>>
        THEN [tool_calls |-> chat_message.tool_calls] ELSE EmptyDict)
    @@ (IF TruthyStr(chat_message.tool_call_id)
        THEN [tool_call_id |-> chat_message.tool_call_id] ELSE EmptyDict)

_convert_chat_message_to_simple_format(chat_message, thread_id, session_id) ==
    [type |-> chat_message.type, content |-> chat_message.content]
    @@ (IF chat_message.tool_calls # <<>>
        THEN [tool_calls |-> chat_message.tool_calls] ELSE EmptyDict)
    @@ (IF TruthyStr(chat_message.tool_call_id)
        THEN [tool_call_id |-> chat_message.tool_call_id] ELSE EmptyDict)
    @@ (IF TruthyStr(chat_message.run_id)
        THEN [run_id |-> chat_message.run_id] ELSE EmptyDict)
    @@ (IF TruthyStr(thread_id) THEN [thread_id |-> thread_id] ELSE EmptyDict)
    @@ (IF TruthyStr(session_id) THEN [session_id |-> session_id] ELSE EmptyDict)
    @@ (IF TruthyStr(chat_message.ai_call_id)
        THEN [ai_call_id |-> chat_message.ai_call_id] ELSE EmptyDict)
    @@ (IF chat_message.response_metadata # EmptyDict
        THEN [response_metadata |-> chat_message.response_metadata] ELSE EmptyDict)
    @@ (IF chat_message.custom_data # EmptyDict
        THEN [custom_data |-> chat_message.custom_data] ELSE EmptyDict)

\* the parameters of the AIMessage constructor that a pair key may name
AIMessageFields ==
    {"content", "tool_calls", "additional_kwargs", "response_metadata", "name", "id"}

IsContent(v) == v.k \in {"str", "list"}

_create_ai_message(parts) ==
    LET filtered == [k \in (DOMAIN parts) \cap AIMessageFields |-> parts[k]]
    IN  IF "content" \notin DOMAIN filtered THEN Raise("TypeError")
        ELSE IF ~IsContent(filtered["content"]) THEN Raise("ValidationError")
        ELSE Ok([AIMessage(filtered["content"]) EXCEPT
                   !.tool_calls = IF "tool_calls" \in DOMAIN filtered
                                  THEN filtered["tool_calls"] ELSE <<>>,
                   !.name = IF "name" \in DOMAIN filtered
                            THEN filtered["name"] ELSE None])

RECURSIVE ProcessTuples(_, _, _)
ProcessTuples(msgs, current_message, processed_messages) ==
    IF msgs = <<>>
    THEN IF current_message # EmptyDict
         THEN LET r == _create_ai_message(current_message)
              IN  IF r.ok THEN Ok(Append(processed_messages, r.val)) ELSE r
         ELSE Ok(processed_messages)
    ELSE LET message == Head(msgs)
         IN  IF IsTuple(message)
             THEN ProcessTuples(Tail(msgs),
                                (message.key :> message.value) @@ current_message,
                                processed_messages)
             ELSE IF current_message # EmptyDict
             THEN LET r == _create_ai_message(current_message)
                  IN  IF r.ok
                      THEN ProcessTuples(Tail(msgs), EmptyDict,
                                         processed_messages \o <<r.val, message>>)
                      ELSE r
             ELSE ProcessTuples(Tail(msgs), current_message,
                                Append(processed_messages, message))

_process_message_tuples(new_messages) == ProcessTuples(new_messages, EmptyDict, <<>>)

\* the value of one node in an update event
Updates(messages) == [k |-> "dict", has_messages |-> TRUE, messages |-> messages]

UpdatesWithoutMessages == [k |-> "dict", has_messages |-> FALSE, messages |-> <<>>]

NoUpdates == [k |-> "none"]

Interrupts(values) == [k |-> "interrupts", values |-> values]

NodeUpdate(node, updates) == [node |-> node, updates |-> updates]

ExpertNodes == {"research_expert", "math_expert"}

RECURSIVE InterruptMessages(_)
InterruptMessages(values) ==
    IF values = <<>> THEN Ok(<<>>)
    ELSE IF ~IsContent(Head(values)) THEN Raise("ValidationError")
    ELSE LET rest == InterruptMessages(Tail(values))
         IN  IF rest.ok THEN Ok(<<AIMessage(Head(values))>> \o rest.val) ELSE rest

\* mutant: the supervisor's messages are all passed on
SupervisorUnreduced(update_messages) == update_messages

\* the messages of the supervisor node: its last AI message if it has one
SupervisorMessages(update_messages) ==
    LET ai_messages == SelectSeq(update_messages, IsAIMessage)
    IN  IF ai_messages # <<>> THEN <<ai_messages[Len(ai_messages)]>>
        ELSE update_messages

\* mutant: the first message of an expert node is passed on as it is
ExpertFirstMessage(node, update_messages) ==
    IF update_messages = <<>> THEN Raise("IndexError")
    ELSE Ok(<<update_messages[1]>>)

\* the messages of an expert node: its first message as a ToolMessage
ExpertMessages(node, update_messages) ==
    IF update_messages = <<>> THEN Raise("IndexError")
    ELSE IF IsTuple(update_messages[1]) THEN Raise("AttributeError")
    ELSE Ok(<<ToolMessage(update_messages[1].content, node, "")>>)

\* the messages one node of an update event contributes to new_messages
NodeMessages(entry) ==
    IF entry.node = "__interrupt__" THEN InterruptMessages(entry.updates.values)
    ELSE LET update_messages0 ==
                 IF entry.updates.k = "dict" /\ entry.updates.has_messages
                 THEN entry.updates.messages ELSE <<>>
             update_messages ==
                 IF entry.node = "supervisor" THEN SupervisorMessages(update_messages0)
                 ELSE update_messages0
         IN  IF entry.node \in ExpertNodes
             THEN ExpertMessages(entry.node, update_messages)
             ELSE Ok(update_messages)

RECURSIVE NewMessages(_)
NewMessages(event) ==
    IF event = <<>> THEN Ok(<<>>)
    ELSE LET first == NodeMessages(Head(event))
         IN  IF ~first.ok THEN first
             ELSE LET rest == NewMessages(Tail(event))
                  IN  IF rest.ok THEN Ok(first.val \o rest.val) ELSE rest

\* the body of the per-message try of _handle_update_events
FormatMessage(message, run_id, thread_id, session_id) ==
    LET r == langchain_to_chat_message(message)
    IN  IF r.ok
        THEN MessageEvent(_convert_chat_message_to_simple_format(
                 [r.val EXCEPT !.run_id = run_id], thread_id, session_id))
        ELSE MessageFormattingError

\* mutant: one try around the whole loop, so the first failure ends the batch
RECURSIVE FormatUntilFailure(_, _, _, _)
FormatUntilFailure(messages, run_id, thread_id, session_id) ==
    IF messages = <<>> THEN <<>>
    ELSE LET e == FormatMessage(Head(messages), run_id, thread_id, session_id)
         IN  IF e.type = "error" THEN <<e>>
             ELSE <<e>> \o FormatUntilFailure(Tail(messages), run_id, thread_id, session_id)

_handle_update_events_one_try(event, run_id, thread_id, session_id) ==
    LET new_messages == NewMessages(event)
        processed_messages ==
            IF new_messages.ok THEN _process_message_tuples(new_messages.val)
            ELSE new_messages
    IN  IF ~processed_messages.ok THEN processed_messages
        ELSE Ok(FormatUntilFailure(processed_messages.val, run_id, thread_id, session_id))

_handle_update_events(event, run_id, thread_id, session_id) ==
    LET new_messages == NewMessages(event)
        processed_messages ==
            IF new_messages.ok THEN _process_message_tuples(new_messages.val)
            ELSE new_messages
    IN  IF ~processed_messages.ok THEN processed_messages
        ELSE Ok([i \in 1..Len(processed_messages.val) |->
                    FormatMessage(processed_messages.val[i],
                                  run_id, thread_id, session_id)])

\* dict.get("id") of the first entry of a non-empty tool-call list
FirstId(tcs) == IF tcs[1].id = NoKey THEN None ELSE tcs[1].id

_extract_tool_call_id_from_message(msg) ==
    IF HasToolCalls(msg) /\ msg.tool_calls # <<>> THEN FirstId(msg.tool_calls)
    ELSE IF HasToolCalls(msg) /\ msg.tool_call_chunks # <<>>
    THEN FirstId(msg.tool_call_chunks)
    ELSE IF HasToolCallId(msg) /\ TruthyStr(msg.tool_call_id) THEN msg.tool_call_id
    ELSE None

\* a token-channel event: (chunk, metadata)
TokenChunk(msg, tags) == [msg |-> msg, metadata |-> [tags |-> tags]]

\* zero or one event, or the exception the content conversion raises
_handle_token_events(event, current_tool_call_id) ==
    IF "skip_stream" \in event.metadata.tags THEN Ok(<<>>)
    ELSE IF event.msg.cls # "AIMessageChunk" THEN Ok(<<>>)
    ELSE LET content == remove_tool_calls(event.msg.content)
         IN  IF ~content.ok THEN content
             ELSE IF TruthyContent(content.val)
             THEN LET text == convert_message_content_to_string(content.val)
                      extracted == _extract_tool_call_id_from_message(event.msg)
                      tool_call_id == IF TruthyStr(extracted) THEN extracted
                                      ELSE current_tool_call_id
                  IN  IF ~text.ok THEN text
                      ELSE Ok(<<TokenEvent(text.val)
                                @@ (IF TruthyStr(tool_call_id)
                                    THEN [tool_call_id |-> tool_call_id]
                                    ELSE EmptyDict)>>)
             ELSE Ok(<<>>)

\* mutant: the run id is not set on the message of a custom event
_handle_custom_events_no_run_id(event, run_id, thread_id, session_id) ==
    LET r == langchain_to_chat_message(event)
    IN  IF r.ok
        THEN <<MessageEvent(_convert_chat_message_to_simple_format(
                   r.val, thread_id, session_id))>>
        ELSE <<>>

\* zero or one event; every exception is caught and logged
_handle_custom_events(event, run_id, thread_id, session_id) ==
    LET r == langchain_to_chat_message(event)
    IN  IF r.ok
        THEN <<MessageEvent(_convert_chat_message_to_simple_format(
                   [r.val EXCEPT !.run_id = run_id], thread_id, session_id))>>
        ELSE <<>>

\* mutant: the token channel is formatted whatever stream_tokens says
_format_events_always_tokens(stream_mode, event, stream_tokens, run_id, thread_id, session_id, current_tool_call_id) ==
    IF stream_mode = "updates"
    THEN _handle_update_events(event.nodes, run_id, thread_id, session_id)
    ELSE IF stream_mode = "messages"
    THEN _handle_token_events(event, current_tool_call_id)
    ELSE IF stream_mode = "custom"
    THEN Ok(_handle_custom_events(event.message, run_id, thread_id, session_id))
    ELSE Ok(<<>>)

_format_events(stream_mode, event, stream_tokens, run_id, thread_id, session_id, current_tool_call_id) ==
    IF stream_mode = "updates"
    THEN _handle_update_events(event.nodes, run_id, thread_id, session_id)
    ELSE IF stream_mode = "messages" /\ stream_tokens
    THEN _handle_token_events(event, current_tool_call_id)
    ELSE IF stream_mode = "custom"
    THEN Ok(_handle_custom_events(event.message, run_id, thread_id, session_id))
    ELSE Ok(<<>>)

\* the first message of a list that has a tool-call list or a tool_call_id
RECURSIVE TrackMessages(_, _)
TrackMessages(messages, current) ==
    IF messages = <<>> THEN [found |-> FALSE, id |-> current]
    ELSE LET message == Head(messages)
         IN  IF ~IsTuple(message) /\ HasToolCalls(message) /\ message.tool_calls # <<>>
             THEN [found |-> TRUE, id |-> FirstId(message.tool_calls)]
             ELSE IF ~IsTuple(message) /\ HasToolCallId(message)
                     /\ TruthyStr(message.tool_call_id)
             THEN [found |-> TRUE, id |-> message.tool_call_id]
             ELSE TrackMessages(Tail(messages), current)

RECURSIVE TrackNodes(_, _)
TrackNodes(event, current) ==
    IF event = <<>> THEN current
    ELSE LET updates == Head(event).updates
             r == IF updates.k = "dict" /\ updates.has_messages
                  THEN TrackMessages(updates.messages, current)
                  ELSE [found |-> FALSE, id |-> current]
         IN  IF r.found THEN r.id ELSE TrackNodes(Tail(event), current)

\* the value of _current_tool_call_id after one engine event
_update_tool_call_tracking(stream_mode, event, current) ==
    IF stream_mode = "updates" THEN TrackNodes(event.nodes, current)
    ELSE IF stream_mode = "messages"
    THEN IF HasToolCalls(event.msg) /\ event.msg.tool_calls # <<>>
         THEN FirstId(event.msg.tool_calls)
         ELSE IF HasToolCallId(event.msg) /\ TruthyStr(event.msg.tool_call_id)
         THEN event.msg.tool_call_id
         ELSE current
    ELSE current

(***************************************************************************)
(* core/storage.py: the thread registry, and the two backends of the       *)
(* thread listing of routes/threads.py.                                    *)
(***************************************************************************)
\* mutant: the user's entry is replaced instead of extended
register_thread_overwrite(registry, user_id, thread_id) ==
    (user_id :> {thread_id}) @@ registry

register_thread(registry, user_id, thread_id) ==
    LET r == IF user_id \notin DOMAIN registry
             THEN (user_id :> {}) @@ registry ELSE registry
    IN  [r EXCEPT ![user_id] = r[user_id] \cup {thread_id}]

\* mutant: the lookup returns the threads of every user
get_all_threads(registry, user_id) == UNION { registry[u] : u \in DOMAIN registry }

get_user_threads(registry, user_id) ==
    IF user_id \in DOMAIN registry THEN registry[user_id] ELSE {}

\* the thread ids the listing returns (as a set: the order is unspecified)
list_threads(use_inmemory, registry, checkpoint_rows, user_id) ==
    IF use_inmemory THEN get_user_threads(registry, user_id)
    ELSE {row[2] : row \in {r \in checkpoint_rows : r[1] = user_id}}

(***************************************************************************)
(* One request: message_generator driving AgentManager.stream_response.    *)
(***************************************************************************)
VARIABLES
    USE_INMEMORY_SAVER,     \* settings.USE_INMEMORY_SAVER
    _thread_registry,       \* storage._thread_registry: user id -> set of thread ids
    checkpoints,            \* rows (user_id, thread_id) of the engine's checkpoint table
    tasks,                  \* engine's persisted state: thread id -> pending tasks
    uuid_count,             \* number of uuid4() calls made so far
    n_requests,             \* number of requests started so far
    pc,                     \* position of the current request
    request,                \* the StreamRequest being served
    configurable,           \* config["configurable"] built by _handle_input
    engine_input,           \* kwargs["input"] built by _handle_input
    _current_tool_call_id,  \* AgentManager._current_tool_call_id
    n_events,               \* engine events consumed by the current stream
    stream_event,           \* the engine event handled last
    formatted_events,       \* what _format_events returned for it
    out,                    \* the lines message_generator has yielded
    \* history, read by the properties only
    failure,                \* what raised in the current request, if anything
    out_mark,               \* Len(out) when the last engine event or failure arrived
    served,                 \* (user_id, thread_id) of every request that got to aget_state
    seen_threads,           \* thread ids of the requests already completed
    runs,                   \* the run_id of every call of _handle_input, in order
    consumed,               \* the engine events the current stream has consumed, in order
    stored_at_start,        \* <<tasks, checkpoints>> when the current request started
    \* the conversion functions of core/agent_utils.py, applied on their own
    raw_original,           \* a raw message as it was constructed
    raw_message,            \* the same message object now
    chat_messages,          \* what the successive calls of langchain_to_chat_message gave
    raw_content,            \* a message content
    text_steps,             \* results of flattening it, then flattening the result
    strip_steps,            \* results of remove_tool_calls, applied again to its result
    fragments,              \* a list of messages and (key, value) pairs
    reassembled,            \* results of _process_message_tuples on it, then on its result
    \* requests served concurrently by one process
    managers,               \* request slot -> the AgentManager and generator of that request
    registrations,          \* history: the (user_id, thread_id) pairs given to register_thread
    looked_up               \* what the last thread listing returned, and for which user

stream_vars ==
    <<USE_INMEMORY_SAVER, _thread_registry, checkpoints, tasks, uuid_count,
      n_requests, pc, request, configurable, engine_input,
      _current_tool_call_id, n_events, stream_event, formatted_events, out,
      failure, out_mark, served, seen_threads, runs, consumed, stored_at_start>>

conversion_vars ==
    <<raw_original, raw_message, chat_messages, raw_content, text_steps, strip_steps,
      fragments, reassembled>>

concurrent_vars == <<managers, registrations, looked_up>>

vars == <<stream_vars, conversion_vars, concurrent_vars>>

\* bounds of the model
MaxEvents == 2

MaxRequests == 2

\* the n-th value uuid4() returns
uuid4(n) == "uuid-" \o ToString(n)

StreamRequest(message, thread_id, session_id, user_id, stream_tokens) ==
    [message |-> message, thread_id |-> thread_id, session_id |-> session_id,
     user_id |-> user_id, stream_tokens |-> stream_tokens]

\* a request that gives the message only: every other field has its default
DefaultStreamRequest(message) == StreamRequest(message, None, None, None, TRUE)

\* a line of the response: one JSON-encoded event, or the completion marker
JsonLine(event) == [line |-> "json", event |-> event]

DoneLine == [line |-> "[DONE]"]

NoEvent == [mode |-> "<none>"]

NotATuple == [mode |-> "<not a tuple>"]

EngineEvent(mode, event) == [mode |-> mode, event |-> event]

\* an update-channel event: the dict from node name to updates, in its order
UpdateEvent(nodes) == EngineEvent("updates", [nodes |-> nodes])

\* a token-channel event: the pair (chunk, metadata)
TokenStreamEvent(msg, tags) == EngineEvent("messages", TokenChunk(msg, tags))

\* a custom-channel event: one value
CustomStreamEvent(message) == EngineEvent("custom", [message |-> message])

\* a pending task of the persisted state; has_interrupts: hasattr(task, "interrupts")
Task(has_interrupts, interrupts) ==
    [has_interrupts |-> has_interrupts, interrupts |-> interrupts]

\* the input given to the engine
\* kwargs["input"] before _handle_input has built it
NoInput == [kind |-> "<None>"]

ResumeCommand(message) == [kind |-> "Command", resume |-> message]

FreshTurn(message) == [kind |-> "messages", messages |-> <<HumanMessage(StrC(message))>>]

StateTasks(thread_id) == IF thread_id \in DOMAIN tasks THEN tasks[thread_id] ELSE <<>>

\* mutant: a fixed default thread id instead of a generated one
ResolvedThreadIdDefault(req, count) ==
    IF req.thread_id = None THEN "default" ELSE req.thread_id

\* _handle_input, from its first line to the await of agent.aget_state
\* (uuid4 is called for run_id, then for thread_id if absent, then for ai_call_id)
ResolvedThreadId(req, count) ==
    IF req.thread_id = None THEN uuid4(count + 2) ELSE req.thread_id

EffectiveSessionId(req, thread_id) ==
    IF TruthyStr(req.session_id) THEN req.session_id ELSE thread_id

EffectiveUserId(req) == IF TruthyStr(req.user_id) THEN req.user_id ELSE "anonymous"

UuidCalls(req) == IF req.thread_id = None THEN 3 ELSE 2

Configurable(req, count) ==
    LET thread_id == ResolvedThreadId(req, count)
        effective_session_id == EffectiveSessionId(req, thread_id)
        effective_user_id == EffectiveUserId(req)
    IN  [thread_id |-> thread_id,
         session_id |-> effective_session_id,
         run_id |-> uuid4(count + 1),
         user_id |-> effective_user_id,
         ai_call_id |-> "ai_call_" \o uuid4(count + UuidCalls(req)),
         langfuse_session_id |-> effective_session_id,
         langfuse_user_id |-> effective_user_id,
         langfuse_observation_id |-> thread_id]

RegistryAfterInput(use_inmemory, registry, cfg) ==
    IF use_inmemory THEN register_thread(registry, cfg.user_id, cfg.thread_id)
    ELSE registry

\* mutant: the test "and task.interrupts" is forgotten
HasInterruptsAttribute(task) == task.has_interrupts

\* _handle_input, after agent.aget_state returned
HasInterrupt(task) == task.has_interrupts /\ task.interrupts # <<>>

UserInputMessage(state_tasks, message) ==
    LET interrupted_tasks == SelectSeq(state_tasks, HasInterrupt)
    IN  IF interrupted_tasks # <<>> THEN ResumeCommand(message)
        ELSE FreshTurn(message)

\* mutant: the filter does not compare the content with the request's message
IsEchoAnyHuman(event, message) ==
    /\ event.type = "message"
    /\ event.content.type = "human"

\* the filter of message_generator on the events of stream_response
IsEcho(event, message) ==
    /\ event.type = "message"
    /\ event.content.type = "human"
    /\ event.content.content = message

Written(events, message) ==
    LET kept == SelectSeq(events, LAMBDA e : ~IsEcho(e, message))
    IN  [i \in 1..Len(kept) |-> JsonLine(kept[i])]

\* the except branch of stream_response, seen through message_generator
AgentErrorLines == <<JsonLine(AgentError)>>

\* the except branch of message_generator
StreamErrorLines == <<JsonLine(StreamError)>>

\* mutant: the events of an engine event are put in front of what was written
EmitFirst(lines, new_lines) == new_lines \o lines

\* the for loop of stream_response yields the formatted events of one engine
\* event, and message_generator writes them, before the next event is awaited
Emit(lines, new_lines) == lines \o new_lines

\* the method that calls aupdate_state for the thread; stream_response never
\* calls it
_save_final_conversation_state(rows, cfg) ==
    rows \cup {<<cfg.user_id, cfg.thread_id>>}

\* the checkpoint rows after stream_response has handled one engine event: it
\* issues no state update, the rows are as the engine left them
CheckpointsAfterEvent(rows, cfg) == rows

\* mutant: the completion marker is sent on the normal path only, not from a finally
FinallyOmitted(lines) == IF lines = <<>> THEN <<DoneLine>> ELSE lines

\* the finally branch of message_generator, after the last lines of the stream
Finally(lines) == lines \o <<DoneLine>>

\* message_generator is called: the AgentManager is constructed
StartRequest(Reqs, max_requests) ==
    /\ pc = "idle"
    /\ n_requests < max_requests
    /\ \E req \in Reqs : request' = req
    /\ n_requests' = n_requests + 1
    /\ pc' = "setup"
    /\ _current_tool_call_id' = None
    /\ out' = <<>>
    /\ n_events' = 0
    /\ stream_event' = NoEvent
    /\ formatted_events' = <<>>
    /\ configurable' = EmptyDict
    /\ engine_input' = NoInput
    /\ failure' = "none"
    /\ out_mark' = 0
    /\ consumed' = <<>>
    /\ stored_at_start' = <<tasks, checkpoints>>
    /\ UNCHANGED <<concurrent_vars, conversion_vars, runs,
                   USE_INMEMORY_SAVER, _thread_registry, checkpoints, tasks, uuid_count,
                   served, seen_threads>>

\* get_template_agent raises: the exception leaves stream_response (the async
\* with is outside its try) and is caught by message_generator
SetupRaises ==
    /\ pc = "setup"
    /\ out' = out \o Finally(StreamErrorLines)
    /\ pc' = "done"
    /\ failure' = "agent_setup"
    /\ out_mark' = Len(out)
    /\ UNCHANGED <<concurrent_vars, conversion_vars, runs, consumed, stored_at_start,
                   USE_INMEMORY_SAVER, _thread_registry, checkpoints, tasks, uuid_count,
                   n_requests, request, configurable, engine_input,
                   _current_tool_call_id, n_events, stream_event, formatted_events,
                   served, seen_threads>>

\* the agent is entered and _handle_input runs up to the await of aget_state
HandleInput ==
    /\ pc = "setup"
    /\ LET cfg == Configurable(request, uuid_count)
       IN  /\ configurable' = cfg
           /\ _thread_registry' =
                  RegistryAfterInput(USE_INMEMORY_SAVER, _thread_registry, cfg)
           /\ served' = served \cup {<<cfg.user_id, cfg.thread_id>>}
           /\ runs' = Append(runs, cfg.run_id)
    /\ uuid_count' = uuid_count + UuidCalls(request)
    /\ pc' = "lookup"
    /\ UNCHANGED <<concurrent_vars, conversion_vars, consumed, stored_at_start,
                   USE_INMEMORY_SAVER, checkpoints, tasks, n_requests, request,
                   engine_input, _current_tool_call_id, n_events, stream_event,
                   formatted_events, out, failure, out_mark, seen_threads>>

\* aget_state returns: the input is chosen, the tracker is reset, astream is called
StateFetched ==
    /\ pc = "lookup"
    /\ pc' = "streaming"
    /\ engine_input' = UserInputMessage(StateTasks(configurable.thread_id), request.message)
    /\ _current_tool_call_id' = None
    /\ UNCHANGED <<concurrent_vars, conversion_vars, runs, consumed, stored_at_start,
                   USE_INMEMORY_SAVER, _thread_registry, checkpoints, tasks, uuid_count,
                   n_requests, request, configurable, n_events, stream_event,
                   formatted_events, out, failure, out_mark, served, seen_threads>>

\* mutant: _handle_input is called outside the try of stream_response, so the
\* exception of aget_state is caught by message_generator instead
StateLookupEscapes ==
    /\ pc = "lookup"
    /\ out' = out \o Finally(StreamErrorLines)
    /\ pc' = "done"
    /\ failure' = "state_lookup"
    /\ out_mark' = Len(out)
    /\ UNCHANGED <<concurrent_vars, conversion_vars, runs, consumed, stored_at_start,
                   USE_INMEMORY_SAVER, _thread_registry, checkpoints, tasks, uuid_count,
                   n_requests, request, configurable, engine_input,
                   _current_tool_call_id, n_events, stream_event, formatted_events,
                   served, seen_threads>>

\* aget_state raises: caught by the try of stream_response
StateLookupRaises ==
    /\ pc = "lookup"
    /\ out' = out \o Finally(AgentErrorLines)
    /\ pc' = "done"
    /\ failure' = "state_lookup"
    /\ out_mark' = Len(out)
    /\ UNCHANGED <<concurrent_vars, conversion_vars, runs, consumed, stored_at_start,
                   USE_INMEMORY_SAVER, _thread_registry, checkpoints, tasks, uuid_count,
                   n_requests, request, configurable, engine_input,
                   _current_tool_call_id, n_events, stream_event, formatted_events,
                   served, seen_threads>>

\* the engine yields one event: one iteration of the async for of
\* stream_response, through the filter of message_generator
EngineYields(Events) ==
    /\ pc = "streaming"
    /\ n_events < MaxEvents
    /\ \E ev \in Events :
         /\ stream_event' = ev
         /\ n_events' = n_events + 1
         /\ consumed' = Append(consumed, ev)
         /\ out_mark' = Len(out)
         /\ IF ev = NotATuple
            THEN /\ formatted_events' = <<>>
                 /\ UNCHANGED <<_current_tool_call_id, out, pc, failure>>
            ELSE LET tracked == _update_tool_call_tracking(
                                    ev.mode, ev.event, _current_tool_call_id)
                     formatted == _format_events(
                                    ev.mode, ev.event, request.stream_tokens,
                                    configurable.run_id, configurable.thread_id,
                                    EffectiveSessionId(request, configurable.thread_id),
                                    tracked)
                 IN  /\ _current_tool_call_id' = tracked
                     /\ IF formatted.ok
                        THEN /\ formatted_events' = formatted.val
                             /\ out' = Emit(out, Written(formatted.val, request.message))
                             /\ UNCHANGED <<pc, failure>>
                        ELSE /\ formatted_events' = <<>>
                             /\ out' = out \o Finally(AgentErrorLines)
                             /\ pc' = "done"
                             /\ failure' = "format_events"
    /\ checkpoints' = CheckpointsAfterEvent(checkpoints, configurable)
    /\ UNCHANGED <<concurrent_vars, conversion_vars, runs, stored_at_start,
                   USE_INMEMORY_SAVER, _thread_registry, tasks, uuid_count,
                   n_requests, request, configurable, engine_input, served, seen_threads>>

\* the task lists the engine may leave in the persisted state of a thread
TaskLists ==
    { <<>>,
      <<Task(TRUE, <<>>)>>,
      <<Task(TRUE, <<>>), Task(TRUE, <<"approve?">>)>>,
      <<Task(FALSE, <<>>)>> }

\* the engine raises while streaming: caught by the try of stream_response
EngineRaises ==
    /\ pc = "streaming"
    /\ out' = out \o Finally(AgentErrorLines)
    /\ pc' = "done"
    /\ failure' = "engine"
    /\ out_mark' = Len(out)
    /\ UNCHANGED <<concurrent_vars, conversion_vars, runs, consumed, stored_at_start,
                   USE_INMEMORY_SAVER, _thread_registry, checkpoints, tasks, uuid_count,
                   n_requests, request, configurable, engine_input,
                   _current_tool_call_id, n_events, stream_event, formatted_events,
                   served, seen_threads>>

\* mutant: when the engine's stream has ended the manager awaits a state
\* update of its own (_save_final_conversation_state) before it returns
EngineEndsThenSaves ==
    /\ pc = "streaming"
    /\ pc' = "saving"
    /\ UNCHANGED <<concurrent_vars, conversion_vars, runs, consumed, stored_at_start,
                   USE_INMEMORY_SAVER, _thread_registry, checkpoints, tasks, uuid_count,
                   n_requests, request, configurable, engine_input,
                   _current_tool_call_id, n_events, stream_event, formatted_events, out,
                   failure, out_mark, served, seen_threads>>

\* the engine's stream ends: the engine has saved the turn (completed, or
\* paused at an interrupt) and message_generator sends the completion marker
EngineEnds ==
    /\ pc = "streaming"
    /\ \E ts \in TaskLists :
         tasks' = (configurable.thread_id :> ts) @@ tasks
    /\ checkpoints' = checkpoints \cup {<<configurable.user_id, configurable.thread_id>>}
    /\ out' = out \o Finally(<<>>)
    /\ pc' = "done"
    /\ out_mark' = Len(out)
    /\ UNCHANGED <<concurrent_vars, conversion_vars, runs, consumed, stored_at_start,
                   USE_INMEMORY_SAVER, _thread_registry, uuid_count, n_requests, request,
                   configurable, engine_input, _current_tool_call_id, n_events,
                   stream_event, formatted_events, failure, served, seen_threads>>

\* the client disconnects while the generator is suspended: the task is
\* cancelled, `except Exception` does not catch the cancellation, and nothing
\* more can be written to the closed connection
ClientDisconnects ==
    /\ pc \in {"setup", "lookup", "streaming"}
    /\ pc' = "cancelled"
    /\ UNCHANGED <<concurrent_vars, conversion_vars, runs, consumed, stored_at_start,
                   USE_INMEMORY_SAVER, _thread_registry, checkpoints, tasks, uuid_count,
                   n_requests, request, configurable, engine_input,
                   _current_tool_call_id, n_events, stream_event, formatted_events, out,
                   failure, out_mark, served, seen_threads>>

\* the response is complete; the server is ready for the next request
RequestDone ==
    /\ pc \in {"done", "cancelled"}
    /\ pc' = "idle"
    /\ seen_threads' =
           seen_threads
           \cup (IF request.thread_id # None THEN {request.thread_id} ELSE {})
           \cup (IF configurable # EmptyDict THEN {configurable.thread_id} ELSE {})
    /\ UNCHANGED <<concurrent_vars, conversion_vars, runs, consumed, stored_at_start,
                   USE_INMEMORY_SAVER, _thread_registry, checkpoints, tasks, uuid_count,
                   n_requests, request, configurable, engine_input,
                   _current_tool_call_id, n_events, stream_event, formatted_events, out,
                   failure, out_mark, served>>

\* no request has been received yet
StreamIdle ==
    /\ _thread_registry = EmptyDict
    /\ checkpoints = {}
    /\ tasks = EmptyDict
    /\ uuid_count = 0
    /\ n_requests = 0
    /\ pc = "idle"
    /\ request = StreamRequest("", None, None, None, TRUE)
    /\ configurable = EmptyDict
    /\ engine_input = NoInput
    /\ _current_tool_call_id = None
    /\ n_events = 0
    /\ stream_event = NoEvent
    /\ formatted_events = <<>>
    /\ out = <<>>
    /\ failure = "none"
    /\ out_mark = 0
    /\ served = {}
    /\ seen_threads = {}
    /\ runs = <<>>
    /\ consumed = <<>>
    /\ stored_at_start = <<EmptyDict, {}>>

\* no conversion function is being exercised on its own
ConversionIdle ==
    /\ raw_original = HumanMessage(StrC(""))
    /\ raw_message = raw_original
    /\ chat_messages = <<>>
    /\ raw_content = StrC("")
    /\ text_steps = <<>>
    /\ strip_steps = <<>>
    /\ fragments = <<>>
    /\ reassembled = <<>>

\* the request slots of the server: requests in different slots run
\* concurrently, as tasks of one event loop
Streams == {"r1", "r2"}

\* a slot that serves no request
IdleManager ==
    [pc |-> "idle", request |-> StreamRequest("", None, None, None, TRUE),
     configurable |-> EmptyDict, engine_input |-> NoInput,
     _current_tool_call_id |-> None, consumed |-> <<>>, out |-> <<>>, out_mark |-> 0]

NoLookup == [user_id |-> None, threads |-> {}, at |-> {}]

\* no concurrent request has been received, no listing has been asked for
ConcurrentIdle ==
    /\ managers = [i \in Streams |-> IdleManager]
    /\ registrations = {}
    /\ looked_up = NoLookup

Init ==
    /\ USE_INMEMORY_SAVER \in BOOLEAN
    /\ StreamIdle
    /\ ConversionIdle
    /\ ConcurrentIdle

(***************************************************************************)
(* The environment: the requests clients send and the events the engine    *)
(* yields.                                                                 *)
(***************************************************************************)
Requests ==
    { StreamRequest(m, t, s, u, st) :
        m \in {"hi", "yes"}, t \in {None, "t1"}, s \in {None, "", "s1"},
        u \in {None, "u1"}, st \in BOOLEAN }

CallTool == RawToolCall("multiply", "{a,b}", "call_1")

\* the engine echoes the user's turn
EchoUpdate ==
    UpdateEvent(<<NodeUpdate("agent", Updates(<<HumanMessage(StrC("hi"))>>))>>)

\* a human message with list content, and an AI turn that calls a tool
ToolCallUpdate ==
    UpdateEvent(
        <<NodeUpdate("agent", Updates(
            <<HumanMessage(ListC(<<StrItem("y"), DictItem("text", "es")>>)),
              [AIMessage(StrC("")) EXCEPT !.tool_calls = <<CallTool>>]>>))>>)

\* an AI turn whose tool call came without an id
NoIdToolCallUpdate ==
    UpdateEvent(
        <<NodeUpdate("agent", Updates(
            <<[AIMessage(StrC("")) EXCEPT
                 !.tool_calls = <<RawToolCall("multiply", "{a,b}", None)>>]>>))>>)

\* three messages, the second of a kind that normalization does not support
BadSecondUpdate ==
    UpdateEvent(
        <<NodeUpdate("agent", Updates(<<AIMessage(StrC("a")), SystemMessage(StrC("x"))>>)),
          NodeUpdate("tools", Updates(<<ToolMessage(StrC("6"), "multiply", "call_1")>>))>>)

\* an AI message arriving as (key, value) pairs, followed by a message whose
\* content cannot be flattened
PairsUpdate ==
    UpdateEvent(
        <<NodeUpdate("agent", Updates(
            <<Pair("content", StrC("b")), Pair("unknown", StrC("x")),
              HumanMessage(ListC(<<DictItem(NoKey, "a")>>))>>))>>)

InterruptUpdate ==
    UpdateEvent(<<NodeUpdate("__interrupt__", Interrupts(<<StrC("approve?")>>))>>)

EmptyExpertUpdate == UpdateEvent(<<NodeUpdate("math_expert", Updates(<<>>))>>)

TextToken == TokenStreamEvent(AIMessageChunk(StrC("a")), {})

\* the first chunk of a text block: a text item whose text is still empty
EmptyTextToken == TokenStreamEvent(AIMessageChunk(ListC(<<DictItem("text", "")>>)), {})

\* a chunk of a streamed tool call
ToolUseToken ==
    TokenStreamEvent(
        [AIMessageChunk(ListC(<<DictItem("tool_use", NoKey)>>))
         EXCEPT !.tool_call_chunks = <<CallTool>>], {})

SkippedToken == TokenStreamEvent(AIMessageChunk(StrC("a")), {"skip_stream"})

ToolResultToken == TokenStreamEvent(ToolMessage(StrC("6"), "multiply", "call_1"), {})

CustomEvent ==
    CustomStreamEvent(LangchainChatMessage("custom", ListC(<<DictItem("progress", "a")>>)))

BadCustomEvent == CustomStreamEvent(LangchainChatMessage("system", StrC("x")))

EngineEvents ==
    { EchoUpdate, ToolCallUpdate, NoIdToolCallUpdate, BadSecondUpdate, PairsUpdate,
      InterruptUpdate,
      EmptyExpertUpdate, TextToken, EmptyTextToken, ToolUseToken, SkippedToken,
      ToolResultToken, CustomEvent, BadCustomEvent, NotATuple }

\* one request served from start to end, over every engine event
Next ==
    \/ StartRequest(Requests, MaxRequests)
    \/ SetupRaises
    \/ HandleInput
    \/ StateFetched
    \/ StateLookupRaises
    \/ EngineYields(EngineEvents)
    \/ EngineRaises
    \/ EngineEnds
    \/ ClientDisconnects

Spec == Init /\ [][Next]_vars

\* a sequence of requests served one after the other
SessionRequests ==
    { StreamRequest("yes", t, s, u, TRUE) :
        t \in {None, "t1"}, s \in {None, "s1"}, u \in {None, "u1"} }

SessionEvents == { InterruptUpdate, TextToken, CustomEvent }

SessionNext ==
    \/ StartRequest(SessionRequests, MaxRequests)
    \/ SetupRaises
    \/ HandleInput
    \/ StateFetched
    \/ StateLookupRaises
    \/ EngineYields(SessionEvents)
    \/ EngineRaises
    \/ EngineEnds
    \/ ClientDisconnects
    \/ RequestDone

SessionSpec == Init /\ [][SessionNext]_vars

(***************************************************************************)
(* The conversion functions of core/agent_utils.py called on their own:    *)
(* langchain_to_chat_message on one raw message, repeatedly, and the two   *)
(* content functions on one content and again on their own result.         *)
(***************************************************************************)
MaxCalls == 2

\* the raw message object after one call of langchain_to_chat_message: a
\* non-empty tool_calls list is extended in place with the tool calls of
\* additional_kwargs, and a non-empty response_metadata dict, which the
\* ChatMessage shares, is updated in place
RawAfterNormalize(message) ==
    IF IsTuple(message) \/ ~IsAIMessage(message) THEN message
    ELSE IF ~convert_message_content_to_string(message.content).ok THEN message
    ELSE LET ak == message.additional_kwargs
         IN  [message EXCEPT
                !.tool_calls =
                    IF @ # <<>> /\ "tool_calls" \in DOMAIN ak
                    THEN @ \o ak["tool_calls"] ELSE @,
                !.response_metadata =
                    IF @ # EmptyDict /\ "response_metadata" \in DOMAIN ak
                    THEN DictUpdate(@, ak["response_metadata"]) ELSE @]

\* an AI message with a structured tool call and one more in additional_kwargs
AIWithSideChannelCalls ==
    [AIMessage(StrC("")) EXCEPT
        !.tool_calls = <<CallTool>>,
        !.additional_kwargs =
            [tool_calls |-> <<RawToolCall("add", "{a,b}", "call_2")>>]]

\* an AI message whose tool calls lack an id, a name or the arguments, in the
\* structured list and in additional_kwargs
AIWithPartialCalls ==
    [AIMessage(StrC("")) EXCEPT
        !.tool_calls = <<RawToolCall("multiply", "{a,b}", NoKey),
                         RawToolCall(NoKey, "{a}", "call_3")>>,
        !.additional_kwargs =
            [tool_calls |-> <<RawToolCall("add", NoKey, "call_4"),
                              RawToolCall("add", "{a,b}", "")>>]]

\* an AI message with response metadata and more of it in additional_kwargs
AIWithSideChannelMetadata ==
    [AIMessage(StrC("a")) EXCEPT
        !.response_metadata = [model |-> "m"],
        !.additional_kwargs =
            [response_metadata |-> [finish_reason |-> "stop"],
             ai_call_id |-> "ai_call_1"]]

\* a list content with plain strings, text items and items with other tags
MixedContent ==
    ListC(<<StrItem("a"), DictItem("tool_use", NoKey), DictItem("reasoning", "x"),
            DictItem("text", "b"), DictItem("tool_use", "t"), StrItem("c")>>)

RawContents ==
    { StrC(""), StrC("a"), ListC(<<>>), ListC(<<StrItem("a")>>), MixedContent,
      ListC(<<DictItem("text", "a"), DictItem("image_url", NoKey), DictItem("text", "b")>>),
      ListC(<<DictItem("tool_use", NoKey)>>),
      ListC(<<DictItem("text", NoKey)>>),
      ListC(<<StrItem("a"), DictItem(NoKey, "b")>>) }

RawMessages ==
    { HumanMessage(StrC("hi")),
      HumanMessage(MixedContent),
      HumanMessage(ListC(<<DictItem(NoKey, "a")>>)),
      AIMessage(StrC("a")),
      AIMessageChunk(ListC(<<DictItem("text", "a")>>)),
      [AIMessage(StrC("")) EXCEPT !.tool_calls = <<CallTool>>],
      [AIMessage(StrC("")) EXCEPT
          !.additional_kwargs = [tool_calls |-> <<CallTool>>]],
      AIWithSideChannelCalls,
      AIWithPartialCalls,
      AIWithSideChannelMetadata,
      ToolMessage(StrC("6"), "multiply", "call_1"),
      ToolMessage(ListC(<<StrItem("6")>>), "multiply", ""),
      LangchainChatMessage("custom", ListC(<<DictItem("progress", "a")>>)),
      LangchainChatMessage("custom", ListC(<<>>)),
      LangchainChatMessage("custom", StrC("progress")),
      LangchainChatMessage("system", StrC("x")),
      LangchainChatMessage("user", ListC(<<DictItem("progress", "a")>>)),
      SystemMessage(StrC("x")),
      Pair("content", StrC("b")) }

\* langchain_to_chat_message is called on the message once more
CallNormalize ==
    /\ Len(chat_messages) < MaxCalls
    /\ chat_messages' = Append(chat_messages, langchain_to_chat_message(raw_message))
    /\ raw_message' = RawAfterNormalize(raw_message)
    /\ UNCHANGED <<concurrent_vars, stream_vars, raw_original, raw_content, text_steps,
                   strip_steps, fragments, reassembled>>

\* convert_message_content_to_string is called on the content, then on the
\* string it returned
CallFlatten ==
    /\ Len(text_steps) < MaxCalls
    /\ text_steps # <<>> => text_steps[Len(text_steps)].ok
    /\ LET arg == IF text_steps = <<>> THEN raw_content
                  ELSE StrC(text_steps[Len(text_steps)].val)
       IN  text_steps' = Append(text_steps, convert_message_content_to_string(arg))
    /\ UNCHANGED <<concurrent_vars, stream_vars, raw_original, raw_message, chat_messages,
                   raw_content, strip_steps, fragments, reassembled>>

\* remove_tool_calls is called on the content, then on the content it returned
CallRemoveToolCalls ==
    /\ Len(strip_steps) < MaxCalls
    /\ strip_steps # <<>> => strip_steps[Len(strip_steps)].ok
    /\ LET arg == IF strip_steps = <<>> THEN raw_content
                  ELSE strip_steps[Len(strip_steps)].val
       IN  strip_steps' = Append(strip_steps, remove_tool_calls(arg))
    /\ UNCHANGED <<concurrent_vars, stream_vars, raw_original, raw_message, chat_messages,
                   raw_content, text_steps, fragments, reassembled>>

ConversionInit ==
    /\ USE_INMEMORY_SAVER = FALSE
    /\ StreamIdle
    /\ ConcurrentIdle
    /\ raw_original \in RawMessages
    /\ raw_message = raw_original
    /\ chat_messages = <<>>
    /\ raw_content \in RawContents
    /\ text_steps = <<>>
    /\ strip_steps = <<>>
    /\ fragments = <<>>
    /\ reassembled = <<>>

ConversionNext ==
    \/ CallNormalize
    \/ CallFlatten
    \/ CallRemoveToolCalls

ConversionSpec == ConversionInit /\ [][ConversionNext]_vars

(***************************************************************************)
(* Properties.                                                             *)
(***************************************************************************)
IsEventLine(l, type) == l.line = "json" /\ l.event.type = type

\* the lines written for the engine event handled last (or for the failure)
LastLines == SubSeq(out, out_mark + 1, Len(out))

\* C1: when a request has ended - normally, by a raise of the engine or of the
\* state lookup, or by a raise of the agent setup before any event - the
\* completion marker [DONE] occurs exactly once in the output and is its last
\* line; while the request is being served no marker has been written.
C1_DoneMarkerOnceAndLast ==
    /\ pc = "done" =>
         /\ out # <<>>
         /\ out[Len(out)] = DoneLine
         /\ \A i \in 1..(Len(out) - 1) : out[i] # DoneLine
    /\ pc \in {"setup", "lookup", "streaming"} =>
         \A i \in 1..Len(out) : out[i] # DoneLine

\* the agent setup raised before any event, and the marker is still the last line
C1_Witness ==
    /\ pc = "done"
    /\ failure = "agent_setup"
    /\ Len(out) = 2
    /\ out[2] = DoneLine

\* C2: when the state lookup or the engine stream raises, the output from that
\* point on is exactly one error event with error_type agent_error and
\* recoverable = false, followed only by the completion marker, and the
\* request ends there.
C2_AgentErrorIsTerminal ==
    failure \in {"state_lookup", "engine"} =>
        /\ pc = "done"
        /\ Len(out) = out_mark + 2
        /\ IsEventLine(out[out_mark + 1], "error")
        /\ out[out_mark + 1].event.content.error_type = "agent_error"
        /\ out[out_mark + 1].event.content.recoverable = FALSE
        /\ out[out_mark + 2] = DoneLine

\* the engine raised after it had yielded events that were written
C2_Witness ==
    /\ failure = "engine"
    /\ out_mark > 0
    /\ pc = "done"

\* C3: no message event of type human whose content is the request's message
\* is ever written; the lines written for an engine event are exactly its
\* formatted events without those echoes, in order (a human message with
\* another content, and every other event, is written).
C3_OnlyEchoSuppressed ==
    /\ \A i \in 1..Len(out) :
         ~ /\ IsEventLine(out[i], "message")
           /\ out[i].event.content.type = "human"
           /\ out[i].event.content.content = request.message
    /\ (pc = "streaming" /\ stream_event # NoEvent) =>
         LET others == SelectSeq(formatted_events,
                         LAMBDA e : ~ /\ e.type = "message"
                                      /\ e.content.type = "human"
                                      /\ e.content.content = request.message)
         IN  /\ Len(LastLines) = Len(others)
             /\ \A i \in 1..Len(others) : LastLines[i] = JsonLine(others[i])

\* a human message with another content was written, then an echo was
\* suppressed while the AI message of the same update was written
C3_Witness ==
    /\ pc = "streaming"
    /\ request.message = "yes"
    /\ stream_event = ToolCallUpdate
    /\ out_mark = 1
    /\ out[1].event.content.type = "human"
    /\ out[1].event.content.content = "hi"
    /\ Len(formatted_events) = 2
    /\ Len(out) = 2
    /\ out[2].event.content.type = "ai"

\* the messages of an update event after fragment reassembly
Batch(ev) == _process_message_tuples(NewMessages(ev.event.nodes).val).val

\* C4: for an update event, the formatted events correspond one to one, in
\* order, to the messages of the batch: a message that normalizes gives its
\* message event, a message that fails normalization gives one error event at
\* its position; a batch of three whose second is malformed gives message,
\* error, message.
C4_FailureIsPerMessage ==
    (pc = "streaming" /\ stream_event.mode = "updates") =>
        LET batch == Batch(stream_event)
        IN  /\ Len(formatted_events) = Len(batch)
            /\ \A i \in 1..Len(batch) :
                 LET n == langchain_to_chat_message(batch[i])
                 IN  IF n.ok
                     THEN /\ formatted_events[i].type = "message"
                          /\ formatted_events[i].content.type = n.val.type
                          /\ formatted_events[i].content.content = n.val.content
                     ELSE formatted_events[i].type = "error"

C4_Witness ==
    /\ pc = "streaming"
    /\ stream_event = BadSecondUpdate
    /\ Len(formatted_events) = 3
    /\ formatted_events[1].type = "message"
    /\ formatted_events[2].type = "error"
    /\ formatted_events[3].type = "message"
    /\ formatted_events[3].content.type = "tool"

ErrorFields == {"message", "recoverable", "error_type"}

\* C5: every error event written has the three fields message, recoverable
\* and error_type, and the error event given for a message that failed
\* formatting has error_type message_formatting_error and recoverable = true.
C5_ErrorEventsAreComplete ==
    /\ \A i \in 1..Len(out) :
         IsEventLine(out[i], "error") => ErrorFields \subseteq DOMAIN out[i].event.content
    /\ (pc = "streaming" /\ stream_event.mode = "updates") =>
         \A i \in 1..Len(formatted_events) :
            formatted_events[i].type = "error" =>
               /\ "error_type" \in DOMAIN formatted_events[i].content
               /\ formatted_events[i].content.error_type = "message_formatting_error"
               /\ formatted_events[i].content.recoverable = TRUE

\* C6: a custom event that normalizes gives exactly one message event; one
\* that cannot be normalized gives exactly one error event with
\* recoverable = true, and the stream goes on.
C6_CustomFailureGivesErrorEvent ==
    (stream_event.mode = "custom" /\ n_events > 0) =>
        /\ pc = "streaming"
        /\ Len(formatted_events) = 1
        /\ IF langchain_to_chat_message(stream_event.event.message).ok
           THEN formatted_events[1].type = "message"
           ELSE /\ formatted_events[1].type = "error"
                /\ formatted_events[1].content.recoverable = TRUE

\* the text a token event would carry: the chunk's content without its
\* tool_use items, flattened
TokenText(chunk) ==
    convert_message_content_to_string(remove_tool_calls(chunk.content).val).val

\* C7: for a token event, nothing is emitted when the tags hold the skip
\* marker or the chunk is not an AI chunk; otherwise one token event is
\* emitted if and only if the content without tool_use items, flattened, is a
\* non-empty string; no token event has empty content.
C7_TokenIffTextNonEmpty ==
    /\ (pc = "streaming" /\ stream_event.mode = "messages" /\ request.stream_tokens) =>
         LET chunk == stream_event.event.msg
             tags == stream_event.event.metadata.tags
         IN  IF "skip_stream" \in tags \/ chunk.cls # "AIMessageChunk"
             THEN formatted_events = <<>>
             ELSE IF TokenText(chunk) # ""
             THEN /\ Len(formatted_events) = 1
                  /\ formatted_events[1].type = "token"
                  /\ formatted_events[1].content = TokenText(chunk)
             ELSE formatted_events = <<>>
    /\ \A i \in 1..Len(out) : IsEventLine(out[i], "token") => out[i].event.content # ""

\* C8: when the persisted state of the request's thread has a pending task
\* with a non-empty interrupt, the engine is driven with a resume directive
\* carrying the request's message; otherwise with a fresh turn of exactly one
\* human message with the request's text.  The persisted state is the one the
\* previous stream on the thread left.
C8_ResumeIffInterrupted ==
    pc = "streaming" =>
        LET ts == StateTasks(configurable.thread_id)
            interrupted ==
                \E i \in 1..Len(ts) : ts[i].has_interrupts /\ ts[i].interrupts # <<>>
        IN  IF interrupted
            THEN engine_input = [kind |-> "Command", resume |-> request.message]
            ELSE /\ engine_input.kind = "messages"
                 /\ Len(engine_input.messages) = 1
                 /\ engine_input.messages[1].cls = "HumanMessage"
                 /\ engine_input.messages[1].content = StrC(request.message)

\* a second request on a thread whose previous stream was left interrupted
C8_Witness ==
    /\ pc = "streaming"
    /\ n_requests = 2
    /\ request.thread_id = "t1"
    /\ "t1" \in seen_threads
    /\ Len(StateTasks("t1")) = 2
    /\ engine_input.kind = "Command"
    /\ engine_input.resume = "yes"

MessageLines == SelectSeq(out, LAMBDA l : IsEventLine(l, "message"))

RECURSIVE StreamLines(_, _, _, _)
StreamLines(events, req, cfg, current) ==
    IF events = <<>> THEN <<>>
    ELSE LET ev == Head(events)
         IN  IF ev = NotATuple THEN StreamLines(Tail(events), req, cfg, current)
             ELSE LET tracked == _update_tool_call_tracking(ev.mode, ev.event, current)
                      formatted == _format_events(
                                     ev.mode, ev.event, req.stream_tokens, cfg.run_id,
                                     cfg.thread_id, EffectiveSessionId(req, cfg.thread_id),
                                     tracked)
                  IN  IF formatted.ok
                      THEN Written(formatted.val, req.message)
                           \o StreamLines(Tail(events), req, cfg, tracked)
                      ELSE AgentErrorLines

\* C12: the output follows the engine's order in a single pass: whenever the
\* stream waits for the next engine event, the lines written are exactly the
\* lines of the first consumed event, then those of the second, and so on,
\* with the lines of every consumed event already written (nothing is held
\* back); after the end of the stream these lines are still the beginning of
\* the output, in that order.
C12_OutputFollowsEngineOrder ==
    /\ n_events = Len(consumed)
    /\ pc = "streaming" => out = StreamLines(consumed, request, configurable, None)
    /\ (pc \in {"done", "cancelled"} /\ consumed # <<>>) =>
         LET lines == StreamLines(consumed, request, configurable, None)
         IN  /\ Len(lines) <= Len(out)
             /\ SubSeq(out, 1, Len(lines)) = lines

\* two message events of a first engine event were written before the token
\* of the second one
C12_Witness ==
    /\ pc = "streaming"
    /\ request.message = "hi"
    /\ request.stream_tokens
    /\ consumed = <<ToolCallUpdate, TextToken>>
    /\ Len(out) = 3
    /\ IsEventLine(out[1], "message")
    /\ IsEventLine(out[2], "message")
    /\ out[2].event.content.type = "ai"
    /\ IsEventLine(out[3], "token")

NotToken(l) == ~IsEventLine(l, "token")

Stored == <<tasks, checkpoints>>

\* C14: the streaming core never writes conversation state: while a request
\* is being served, after a stream that failed, and after one cut off by a
\* client disconnect at any point, the persisted state is exactly what it was
\* when the request started; it differs only after the engine's own save at
\* the end of a stream.
C14_CoreNeverWritesState ==
    /\ pc \in {"setup", "lookup", "streaming", "cancelled"} => Stored = stored_at_start
    /\ (pc = "done" /\ failure # "none") => Stored = stored_at_start
    /\ (pc # "idle" /\ Stored # stored_at_start) => (pc = "done" /\ failure = "none")

\* a second turn on a thread that has persisted state was cut off by a
\* disconnect after two engine events had been handled
C14_Witness ==
    /\ pc = "cancelled"
    /\ n_requests = 2
    /\ n_events = 2
    /\ out # <<>>
    /\ configurable.thread_id = "t1"
    /\ StateTasks("t1") # <<>>
    /\ <<configurable.user_id, "t1">> \in checkpoints
    /\ Stored = stored_at_start

\* C15: normalization returns a message for every raw message of the four
\* supported shapes - type human for a human message, ai for an AI message,
\* tool with the raw tool_call_id for a tool result, custom with empty content
\* and the first element of the raw content as custom_data for a chat message
\* of role custom - and fails with the unsupported-kind error (ValueError) for
\* every other shape and every other role.
C15_NormalizeTotalOnFourShapes ==
    chat_messages # <<>> =>
        LET r == chat_messages[1]
            m == raw_original
        IN  IF IsTuple(m) THEN ~r.ok /\ r.exc = "ValueError"
            ELSE IF m.cls = "HumanMessage" THEN r.ok /\ r.val.type = "human"
            ELSE IF IsAIMessage(m) THEN r.ok /\ r.val.type = "ai"
            ELSE IF m.cls = "ToolMessage"
            THEN /\ r.ok
                 /\ r.val.type = "tool"
                 /\ r.val.tool_call_id = m.tool_call_id
            ELSE IF m.cls = "ChatMessage" /\ m.role = "custom"
            THEN /\ r.ok
                 /\ r.val.type = "custom"
                 /\ r.val.content = ""
                 /\ r.val.custom_data = ItemAsDict(Head(m.content.items))
            ELSE ~r.ok /\ r.exc = "ValueError"

\* C16: normalization is deterministic and pure: every call on the same raw
\* message gives the same result as the first one (the same tool_calls and
\* response_metadata in particular), and the raw message is afterwards what it
\* was before the first call.
C16_NormalizeIsPure ==
    /\ \A i, j \in 1..Len(chat_messages) : chat_messages[i] = chat_messages[j]
    /\ raw_message = raw_original

\* every dict item of a list content has a tag, and those tagged text have a
\* text field
Tagged(c) ==
    c.k = "list" =>
        \A i \in 1..Len(c.items) :
            c.items[i].k = "dict" =>
                /\ c.items[i].type # NoKey
                /\ c.items[i].type = "text" => c.items[i].text # NoKey

\* what one item contributes to the flattened text
Contribution(it) ==
    IF it.k = "str" THEN it.s
    ELSE IF it.type = "text" THEN it.text
    ELSE ""

RECURSIVE Concatenation(_)
Concatenation(items) ==
    IF items = <<>> THEN ""
    ELSE Contribution(Head(items)) \o Concatenation(Tail(items))

\* C17: flattening returns a plain string unchanged, so flattening the result
\* of a flattening gives the same string again; for a list it returns the
\* concatenation, in order, of the plain-string items and of the text field of
\* the items tagged text, and an item with another tag contributes nothing.
C17_FlattenConcatenatesText ==
    /\ (text_steps # <<>> /\ raw_content.k = "str") =>
         text_steps[1] = Ok(raw_content.s)
    /\ (text_steps # <<>> /\ raw_content.k = "list" /\ Tagged(raw_content)) =>
         text_steps[1] = Ok(Concatenation(raw_content.items))
    /\ \A i \in 2..Len(text_steps) : text_steps[i] = text_steps[i - 1]

\* a list of plain strings, text items and items with other tags was
\* flattened, and the result flattened again
C17_Witness ==
    /\ raw_content = MixedContent
    /\ Len(text_steps) = 2
    /\ text_steps[1] = Ok("abc")
    /\ text_steps[2] = Ok("abc")

IsToolUse(it) == it.k = "dict" /\ it.type = "tool_use"

NotToolUse(it) == ~IsToolUse(it)

\* C18: remove_tool_calls returns a string content unchanged; for a list
\* content it returns the list without the items tagged tool_use and with
\* every other item - plain strings and dict items with other tags - kept in
\* the same order; applied to its own result it returns that result.
C18_RemoveToolCallsExact ==
    /\ (strip_steps # <<>> /\ raw_content.k = "str") =>
         strip_steps[1] = Ok(raw_content)
    /\ (strip_steps # <<>> /\ raw_content.k = "list" /\ Tagged(raw_content)) =>
         /\ strip_steps[1] = Ok(ListC(SelectSeq(raw_content.items, NotToolUse)))
         /\ \A i \in 1..Len(strip_steps[1].val.items) :
              NotToolUse(strip_steps[1].val.items[i])
    /\ \A i \in 2..Len(strip_steps) : strip_steps[i] = strip_steps[i - 1]

\* two tool_use items were removed from a list of six, the other four were
\* kept in order, and a second application changed nothing
C18_Witness ==
    /\ raw_content = MixedContent
    /\ Len(strip_steps) = 2
    /\ strip_steps[1].val.items =
           <<StrItem("a"), DictItem("reasoning", "x"), DictItem("text", "b"), StrItem("c")>>
    /\ strip_steps[2] = strip_steps[1]

\* the messages an engine event carries: those of its node updates, or the
\* chunk of a token event
CarriedMessages(ev) ==
    IF ev.mode = "updates"
    THEN UNION { IF u.updates.k = "dict" /\ u.updates.has_messages
                 THEN { u.updates.messages[i] : i \in 1..Len(u.updates.messages) }
                 ELSE {} :
                 u \in { ev.event.nodes[n] : n \in 1..Len(ev.event.nodes) } }
    ELSE IF ev.mode = "messages" THEN {ev.event.msg}
    ELSE {}

\* the usable ids an engine event carries: the id of the first tool call of a
\* message, or the tool_call_id of a tool result, when it is a non-empty string
UsableIds(ev) ==
    { FirstId(m.tool_calls) :
        m \in { x \in CarriedMessages(ev) :
                  ~IsTuple(x) /\ IsAIMessage(x) /\ x.tool_calls # <<>> } }
    \cup { m.tool_call_id :
             m \in { x \in CarriedMessages(ev) : ~IsTuple(x) /\ x.cls = "ToolMessage" } }

\* C19: handling an engine event either leaves the current tool call id as
\* it was or sets it to a usable id that the event carries; an event without
\* a usable id - its messages lack the attributes, or the first entry of a
\* tool-call list has no id - never clears or replaces it.
C19_TrackerKeepsLastKnownId ==
    [][ (pc = "streaming" /\ n_events' = n_events + 1 /\ stream_event' # NotATuple) =>
           \/ _current_tool_call_id' = _current_tool_call_id
           \/ /\ TruthyStr(_current_tool_call_id')
              /\ _current_tool_call_id' \in UsableIds(stream_event')
      ]_vars

\* the messages of an update event cannot be collected or reassembled
PreparationFails(ev) ==
    /\ ev.mode = "updates"
    /\ LET new_messages == NewMessages(ev.event.nodes)
       IN  \/ ~new_messages.ok
           \/ ~_process_message_tuples(new_messages.val).ok

\* C20: when the messages of an update event cannot be prepared for
\* normalization - an expert node with an empty message list, fragments that
\* do not make an AI message - the stream is not aborted: no agent_error is
\* written for the event, at most recoverable errors are, and the stream
\* still waits for the engine's next event.
C20_PreparationFailureIsRecoverable ==
    (n_events > 0 /\ stream_event # NotATuple /\ PreparationFails(stream_event)
       /\ pc # "cancelled") =>
        /\ pc = "streaming"
        /\ failure = "none"
        /\ \A i \in 1..Len(LastLines) :
             IsEventLine(LastLines[i], "error") =>
                LastLines[i].event.content.recoverable = TRUE

(***************************************************************************)
(* The tool call tracker on its own: one request after the other, over the *)
(* engine events that carry tool calls, tool results and text chunks.      *)
(***************************************************************************)
TrackerRequests == { StreamRequest("hi", None, None, None, st) : st \in BOOLEAN }

\* a tool result, then in the same step the AI turn that calls the next tool
ResultThenCallUpdate ==
    UpdateEvent(
        <<NodeUpdate("tools", Updates(<<ToolMessage(StrC("6"), "multiply", "call_1")>>)),
          NodeUpdate("agent", Updates(
            <<[AIMessage(StrC("")) EXCEPT
                 !.tool_calls = <<RawToolCall("add", "{a,b}", "call_2")>>]>>))>>)

\* the same two messages, the AI turn first
CallThenResultUpdate ==
    UpdateEvent(
        <<NodeUpdate("agent", Updates(
            <<[AIMessage(StrC("")) EXCEPT
                 !.tool_calls = <<RawToolCall("add", "{a,b}", "call_2")>>]>>)),
          NodeUpdate("tools", Updates(<<ToolMessage(StrC("6"), "multiply", "call_1")>>))>>)

\* a text chunk that also opens a streamed tool call: the call's id is on the
\* chunk's tool_call_chunks, its arguments are not complete yet
ChunkIdToken ==
    TokenStreamEvent(
        [AIMessageChunk(StrC("a"))
         EXCEPT !.tool_call_chunks = <<RawToolCall("add", "{a", "call_2")>>], {})

TrackerEvents ==
    { ToolCallUpdate, NoIdToolCallUpdate, ResultThenCallUpdate, CallThenResultUpdate,
      TextToken, ChunkIdToken, ToolUseToken, ToolResultToken }

TrackerNext ==
    \/ StartRequest(TrackerRequests, MaxRequests)
    \/ HandleInput
    \/ StateFetched
    \/ EngineYields(TrackerEvents)
    \/ EngineRaises
    \/ EngineEnds
    \/ RequestDone

TrackerSpec == Init /\ [][TrackerNext]_vars

\* the non-empty ids found on a chunk itself: on the first entry of its
\* tool-call list or of its tool_call_chunks
IdsOnChunk(msg) ==
    { id \in (IF msg.tool_calls # <<>> THEN {FirstId(msg.tool_calls)} ELSE {})
             \cup (IF msg.tool_call_chunks # <<>>
                   THEN {FirstId(msg.tool_call_chunks)} ELSE {}) : TruthyStr(id) }

\* C21: a token event carries the tracker's current id whenever the tracker
\* holds one; only when the tracker holds none does it carry an id found on
\* the chunk itself; when there is neither, the event has no tool_call_id.
C21_TokenCarriesTrackerIdFirst ==
    (pc = "streaming" /\ n_events > 0 /\ stream_event # NotATuple
       /\ stream_event.mode = "messages" /\ formatted_events # <<>>) =>
        LET token == formatted_events[1]
            on_chunk == IdsOnChunk(stream_event.event.msg)
        IN  IF TruthyStr(_current_tool_call_id)
            THEN Get(token, "tool_call_id") = _current_tool_call_id
            ELSE IF on_chunk # {}
            THEN Get(token, "tool_call_id") \in on_chunk
            ELSE "tool_call_id" \notin DOMAIN token

\* the messages of an update event that have a non-empty tool-call list
WithToolCalls(ev) ==
    { m \in CarriedMessages(ev) : ~IsTuple(m) /\ HasToolCalls(m) /\ m.tool_calls # <<>> }

\* the messages of an update event that have a non-empty tool_call_id
WithToolCallId(ev) ==
    { m \in CarriedMessages(ev) :
        ~IsTuple(m) /\ HasToolCallId(m) /\ TruthyStr(m.tool_call_id) }

\* C22: after an update event, if any message of the event has a non-empty
\* tool-call list the tracker's id is the id of the first entry of such a
\* list; the tool_call_id of a message is taken only when no message of the
\* event has a tool-call list - whatever the order of the nodes and messages.
C22_ToolCallListWinsInAnyOrder ==
    (pc = "streaming" /\ n_events > 0 /\ stream_event # NotATuple
       /\ stream_event.mode = "updates") =>
        IF WithToolCalls(stream_event) # {}
        THEN _current_tool_call_id \in
                 { FirstId(m.tool_calls) : m \in WithToolCalls(stream_event) }
        ELSE WithToolCallId(stream_event) # {} =>
                 _current_tool_call_id \in
                     { m.tool_call_id : m \in WithToolCallId(stream_event) }

(***************************************************************************)
(* Concurrent requests: every request has its own generator and its own    *)
(* AgentManager (routes/stream.py constructs one per call); the generators *)
(* run as tasks of one event loop and are interleaved at their awaits. The *)
(* thread registry, the uuid source and the engine's store are shared.     *)
(***************************************************************************)
single_stream_vars ==
    <<pc, request, configurable, engine_input, _current_tool_call_id, n_events,
      stream_event, formatted_events, out, failure, out_mark, served, seen_threads,
      runs, consumed, stored_at_start>>

\* mutant: the tracker is an attribute of the class, shared by every manager
SetTrackerOfClass(ms, i, id) ==
    [j \in DOMAIN ms |-> [ms[j] EXCEPT !._current_tool_call_id = id]]

\* self._current_tool_call_id = id, on the manager of request i
SetTracker(ms, i, id) == [ms EXCEPT ![i]._current_tool_call_id = id]

\* two users, each in a thread of their own
ConcurrentRequests ==
    { StreamRequest("hi", "t1", None, "u1", TRUE),
      StreamRequest("hi", "t2", None, "u2", TRUE) }

\* two users and two thread ids, in every combination
RegistryRequests ==
    { StreamRequest("hi", t, None, u, TRUE) : t \in {"t1", "t2"}, u \in {"u1", "u2"} }

ConcurrentEvents == { ToolCallUpdate, TextToken, ChunkIdToken }

\* message_generator is called for a new request: its AgentManager is constructed
ManagerStart(i, Reqs) ==
    /\ managers[i].pc = "idle"
    /\ n_requests < MaxRequests
    /\ \E req \in Reqs :
         managers' = SetTracker(
                         [managers EXCEPT ![i] =
                             [IdleManager EXCEPT !.pc = "setup", !.request = req]],
                         i, None)
    /\ n_requests' = n_requests + 1
    /\ UNCHANGED <<conversion_vars, single_stream_vars, registrations, looked_up,
                   USE_INMEMORY_SAVER, _thread_registry, checkpoints, tasks, uuid_count>>

\* request i: the agent is entered and _handle_input runs up to the await of
\* aget_state; register_thread is a plain function, run without any await
ManagerHandleInput(i) ==
    /\ managers[i].pc = "setup"
    /\ LET cfg == Configurable(managers[i].request, uuid_count)
       IN  /\ managers' = [managers EXCEPT ![i].configurable = cfg, ![i].pc = "lookup"]
           /\ _thread_registry' =
                  RegistryAfterInput(USE_INMEMORY_SAVER, _thread_registry, cfg)
           /\ registrations' =
                  IF USE_INMEMORY_SAVER
                  THEN registrations \cup {<<cfg.user_id, cfg.thread_id>>}
                  ELSE registrations
    /\ uuid_count' = uuid_count + UuidCalls(managers[i].request)
    /\ UNCHANGED <<conversion_vars, single_stream_vars, looked_up,
                   USE_INMEMORY_SAVER, checkpoints, tasks, n_requests>>

\* request i: aget_state returns, the tracker is reset, astream is called
ManagerStateFetched(i) ==
    /\ managers[i].pc = "lookup"
    /\ managers' =
           SetTracker(
               [managers EXCEPT
                  ![i].engine_input =
                      UserInputMessage(StateTasks(managers[i].configurable.thread_id),
                                       managers[i].request.message),
                  ![i].pc = "streaming"],
               i, None)
    /\ UNCHANGED <<conversion_vars, single_stream_vars, registrations, looked_up,
                   USE_INMEMORY_SAVER, _thread_registry, checkpoints, tasks, uuid_count,
                   n_requests>>

\* request i: its engine yields one event; the tracker is updated, the event
\* is formatted with the tracker's id and the lines are written
ManagerYields(i) ==
    /\ managers[i].pc = "streaming"
    /\ Len(managers[i].consumed) < MaxEvents
    /\ \E ev \in ConcurrentEvents :
         LET m == managers[i]
             tracked == _update_tool_call_tracking(
                            ev.mode, ev.event, m._current_tool_call_id)
             after == SetTracker(managers, i, tracked)
             formatted == _format_events(
                            ev.mode, ev.event, m.request.stream_tokens,
                            m.configurable.run_id, m.configurable.thread_id,
                            EffectiveSessionId(m.request, m.configurable.thread_id),
                            after[i]._current_tool_call_id)
         IN  managers' =
                 [after EXCEPT
                    ![i].consumed = Append(m.consumed, ev),
                    ![i].out_mark = Len(m.out),
                    ![i].out = IF formatted.ok
                               THEN Emit(m.out, Written(formatted.val, m.request.message))
                               ELSE m.out \o Finally(AgentErrorLines),
                    ![i].pc = IF formatted.ok THEN "streaming" ELSE "done"]
    /\ checkpoints' = CheckpointsAfterEvent(checkpoints, managers[i].configurable)
    /\ UNCHANGED <<conversion_vars, single_stream_vars, registrations, looked_up,
                   USE_INMEMORY_SAVER, _thread_registry, tasks, uuid_count, n_requests>>

\* request i: the engine's stream ends with the turn completed and saved
ManagerEnds(i) ==
    /\ managers[i].pc = "streaming"
    /\ tasks' = (managers[i].configurable.thread_id :> <<>>) @@ tasks
    /\ checkpoints' = checkpoints \cup {<<managers[i].configurable.user_id,
                                          managers[i].configurable.thread_id>>}
    /\ managers' = [managers EXCEPT ![i].out = managers[i].out \o Finally(<<>>),
                                    ![i].out_mark = Len(managers[i].out),
                                    ![i].pc = "done"]
    /\ UNCHANGED <<conversion_vars, single_stream_vars, registrations, looked_up,
                   USE_INMEMORY_SAVER, _thread_registry, uuid_count, n_requests>>

\* request i: the response is complete, the slot is free for the next request
ManagerDone(i) ==
    /\ managers[i].pc = "done"
    /\ managers' = [managers EXCEPT ![i] = IdleManager]
    /\ UNCHANGED <<conversion_vars, single_stream_vars, registrations, looked_up,
                   USE_INMEMORY_SAVER, _thread_registry, checkpoints, tasks, uuid_count,
                   n_requests>>

Users == {"u1", "u2"}

\* GET /v1/threads/{user_id}, between the steps of the running requests
ListThreads(user_id) ==
    /\ looked_up' = [user_id |-> user_id,
                     threads |-> list_threads(USE_INMEMORY_SAVER, _thread_registry,
                                              checkpoints, user_id),
                     at |-> registrations]
    /\ UNCHANGED <<conversion_vars, stream_vars, managers, registrations>>

ConcurrentInit ==
    /\ USE_INMEMORY_SAVER = TRUE
    /\ StreamIdle
    /\ ConversionIdle
    /\ ConcurrentIdle

\* concurrent streams, each consuming the events of its own engine run
ConcurrentNext ==
    \E i \in Streams :
       \/ ManagerStart(i, ConcurrentRequests)
       \/ ManagerHandleInput(i)
       \/ ManagerStateFetched(i)
       \/ ManagerYields(i)
       \/ ManagerEnds(i)
       \/ ManagerDone(i)

ConcurrentSpec == ConcurrentInit /\ [][ConcurrentNext]_vars

\* concurrent requests registering their threads while the listing is read
RegistryNext ==
    \/ \E i \in Streams :
         \/ ManagerStart(i, RegistryRequests)
         \/ ManagerHandleInput(i)
         \/ ManagerStateFetched(i)
         \/ ManagerEnds(i)
         \/ ManagerDone(i)
    \/ \E u \in Users : ListThreads(u)

RegistrySpec == ConcurrentInit /\ [][RegistryNext]_vars

\* every non-empty id an engine event carries: on the first tool call or the
\* first tool call chunk of a message, or as the tool_call_id of a tool result
CarriedIds(ev) ==
    UNION { IdsOnChunk(m) \cup (IF TruthyStr(m.tool_call_id) THEN {m.tool_call_id} ELSE {}) :
            m \in { x \in CarriedMessages(ev) : ~IsTuple(x) } }

\* the ids carried by the events that request i has consumed so far
IdsOfStream(i) ==
    UNION { CarriedIds(managers[i].consumed[n]) : n \in 1..Len(managers[i].consumed) }

\* C23: the tool_call_id of a token event is an id carried by the same or an
\* earlier engine event of the same stream: the tracker is empty when the
\* stream starts emitting, and it only ever holds an id of its own stream,
\* whatever the requests running concurrently (or served before in the same
\* slot) have consumed.
C23_TrackerIsPerStream ==
    \A i \in Streams :
        LET m == managers[i]
        IN  /\ (m.pc = "streaming" /\ m.consumed = <<>>) => m._current_tool_call_id = None
            /\ m.pc \in {"streaming", "done"} =>
                  m._current_tool_call_id \in {None} \cup IdsOfStream(i)
            /\ \A k \in (m.out_mark + 1)..Len(m.out) :
                  (IsEventLine(m.out[k], "token")
                     /\ "tool_call_id" \in DOMAIN m.out[k].event) =>
                      m.out[k].event.tool_call_id \in IdsOfStream(i)

\* one request has a tool call in progress and tags its token with it, while
\* the other request, running concurrently, has just written an untagged token
C23_Witness ==
    /\ managers["r1"].pc = "streaming"
    /\ managers["r1"].consumed = <<ToolCallUpdate, TextToken>>
    /\ managers["r1"].out[Len(managers["r1"].out)].event =
           TokenEvent("a") @@ [tool_call_id |-> "call_1"]
    /\ managers["r2"].pc = "streaming"
    /\ managers["r2"].consumed = <<TextToken>>
    /\ managers["r2"].out = <<JsonLine(TokenEvent("a"))>>
    /\ managers["r2"].out_mark = 0

\* the thread ids registered under a user among the given registrations
RegisteredUnder(pairs, user_id) == { p[2] : p \in { q \in pairs : q[1] = user_id } }

\* C24: whatever the interleaving of the registrations of concurrent requests,
\* the threads looked up for a user are exactly the thread ids registered
\* under that user so far: a repeated registration changes nothing, none is
\* lost, no thread of another user appears, and no reader sees an entry that
\* exists but has not received its thread id yet.
C24_LookupIsExactlyTheRegistered ==
    /\ \A u \in Users :
         get_user_threads(_thread_registry, u) = RegisteredUnder(registrations, u)
    /\ \A u \in DOMAIN _thread_registry : _thread_registry[u] # {}
    /\ looked_up # NoLookup =>
         looked_up.threads = RegisteredUnder(looked_up.at, looked_up.user_id)

\* two requests of the same user, both past their registration and both still
\* running, and a listing that returned the two threads while another user's
\* listing stays empty
C24_Witness ==
    /\ managers["r1"].pc = "lookup"
    /\ managers["r2"].pc = "streaming"
    /\ managers["r1"].configurable.user_id = "u1"
    /\ managers["r2"].configurable.user_id = "u1"
    /\ managers["r1"].configurable.thread_id # managers["r2"].configurable.thread_id
    /\ looked_up.user_id = "u1"
    /\ looked_up.threads = {"t1", "t2"}
    /\ get_user_threads(_thread_registry, "u2") = {}

\* the two invariants of the data model, on a ChatMessage or on the content
\* of a message event (where an unset field is absent)
TypedAsDataModel(m) ==
    /\ TruthyStr(Get(m, "tool_call_id")) => m.type = "tool"
    /\ ("tool_calls" \in DOMAIN m /\ m.tool_calls # <<>>) => m.type = "ai"

\* C25: every ChatMessage that normalization produces, and the content of the
\* message event built from it, has type tool if its tool_call_id is set and
\* type ai if its tool_calls are not empty.
C25_DataModelInvariants ==
    \A i \in 1..Len(chat_messages) :
        chat_messages[i].ok =>
            /\ TypedAsDataModel(chat_messages[i].val)
            /\ TypedAsDataModel(
                   _convert_chat_message_to_simple_format(chat_messages[i].val, "t1", "s1"))

\* a tool result has been normalized: its tool_call_id is set and is on the
\* content of its event
C25_Witness ==
    /\ raw_original = ToolMessage(StrC("6"), "multiply", "call_1")
    /\ Len(chat_messages) = 1
    /\ chat_messages[1].ok
    /\ chat_messages[1].val.tool_call_id = "call_1"
    /\ _convert_chat_message_to_simple_format(
           chat_messages[1].val, "t1", "s1").tool_call_id = "call_1"

\* the raw message as it is when langchain_to_chat_message is called for the
\* i-th time
RECURSIVE RawBefore(_)
RawBefore(i) == IF i = 1 THEN raw_original ELSE RawAfterNormalize(RawBefore(i - 1))

\* the entries of the structured list, then those of the side-channel map
MergedToolCalls(message) ==
    message.tool_calls
    \o (IF "tool_calls" \in DOMAIN message.additional_kwargs
        THEN message.additional_kwargs["tool_calls"] ELSE <<>>)

HasNameAndArgs(tc) == tc.name # NoKey /\ tc.args # NoKey

\* C26: the tool_calls of a normalized AI message are the entries of the raw
\* message's structured list followed by those of its side-channel map,
\* exactly those that have both a name and arguments, in that order; the
\* others are dropped without an exception; a kept entry keeps its name,
\* arguments and id, a missing or empty id becomes null, and its type is
\* tool_call.
C26_ToolCallsMergedAndFiltered ==
    \A i \in 1..Len(chat_messages) :
        (IsAIMessage(RawBefore(i))
           /\ convert_message_content_to_string(RawBefore(i).content).ok) =>
            LET kept == SelectSeq(MergedToolCalls(RawBefore(i)), HasNameAndArgs)
                tool_calls == chat_messages[i].val.tool_calls
            IN  /\ chat_messages[i].ok
                /\ Len(tool_calls) = Len(kept)
                /\ \A n \in 1..Len(kept) :
                     /\ tool_calls[n].name = kept[n].name
                     /\ tool_calls[n].args = kept[n].args
                     /\ tool_calls[n].id =
                            (IF kept[n].id \in {NoKey, None, ""} THEN None ELSE kept[n].id)
                     /\ tool_calls[n].type = "tool_call"

\* of four entries, the one without a name and the one without arguments are
\* gone; the two kept ones, from either source, have a null id
C26_Witness ==
    /\ raw_original = AIWithPartialCalls
    /\ Len(chat_messages) = 1
    /\ chat_messages[1].ok
    /\ chat_messages[1].val.tool_calls =
           <<ToolCall("multiply", "{a,b}", None), ToolCall("add", "{a,b}", None)>>

(***************************************************************************)
(* Fragment reassembly called on its own: _process_message_tuples on a     *)
(* list of messages and (key, value) pairs, then on the list it returned.  *)
(***************************************************************************)
MaxItems == 3

FragmentItems ==
    { Pair("content", StrC("b")), Pair("content", StrC("c")), Pair("unknown", StrC("x")),
      HumanMessage(StrC("hi")), AIMessage(StrC("b")) }

FragmentLists == UNION { [1..n -> FragmentItems] : n \in 0..MaxItems }

\* _process_message_tuples is called on the list, then on the list it returned
CallReassemble ==
    /\ Len(reassembled) < MaxCalls
    /\ reassembled # <<>> => reassembled[Len(reassembled)].ok
    /\ LET arg == IF reassembled = <<>> THEN fragments
                  ELSE reassembled[Len(reassembled)].val
       IN  reassembled' = Append(reassembled, _process_message_tuples(arg))
    /\ UNCHANGED <<concurrent_vars, stream_vars, raw_original, raw_message, chat_messages,
                   raw_content, text_steps, strip_steps, fragments>>

ReassemblyInit ==
    /\ USE_INMEMORY_SAVER = FALSE
    /\ StreamIdle
    /\ ConcurrentIdle
    /\ raw_original = HumanMessage(StrC(""))
    /\ raw_message = raw_original
    /\ chat_messages = <<>>
    /\ raw_content = StrC("")
    /\ text_steps = <<>>
    /\ strip_steps = <<>>
    /\ fragments \in FragmentLists
    /\ reassembled = <<>>

ReassemblyNext == CallReassemble

ReassemblySpec == ReassemblyInit /\ [][ReassemblyNext]_vars

\* the number of non-pair items among the first k items of the list
NonPairsUpTo(k) == Cardinality({ j \in 1..k : ~IsTuple(fragments[j]) })

\* a maximal run of consecutive pairs ends at item k
RunEndsAt(k) ==
    /\ IsTuple(fragments[k])
    /\ k = Len(fragments) \/ ~IsTuple(fragments[k + 1])

\* the number of maximal runs of pairs that end among the first k items
RunsUpTo(k) == Cardinality({ j \in 1..k : RunEndsAt(j) })

\* the pairs of the run that ends at item k
RunEndingAt(k) ==
    LET start == CHOOSE a \in 1..k :
                   /\ \A j \in a..k : IsTuple(fragments[j])
                   /\ a = 1 \/ ~IsTuple(fragments[a - 1])
    IN  SubSeq(fragments, start, k)

\* the j-th pair of a run is its last pair with the key "content"
IsLastContentPair(run, j) ==
    /\ run[j].key = "content"
    /\ \A l \in (j + 1)..Len(run) : run[l].key # "content"

\* the output has every non-pair item unchanged and one AI message per
\* maximal run of pairs, each at the place its item or its run has in the input
ReassembledInOrder(result) ==
    /\ result.ok
    /\ Len(result.val) = NonPairsUpTo(Len(fragments)) + RunsUpTo(Len(fragments))
    /\ \A k \in 1..Len(fragments) :
         LET at == NonPairsUpTo(k) + RunsUpTo(k)
         IN  /\ ~IsTuple(fragments[k]) => result.val[at] = fragments[k]
             /\ RunEndsAt(k) =>
                  /\ result.val[at].cls = "AIMessage"
                  /\ \A j \in 1..Len(RunEndingAt(k)) :
                       IsLastContentPair(RunEndingAt(k), j) =>
                           result.val[at].content = RunEndingAt(k)[j].value

\* C27: reassembly returns, in input order, every non-pair item unchanged and
\* exactly one constructed AI message for every maximal run of consecutive
\* pairs, where the run ended; nothing is lost, duplicated or reordered, and
\* the fields the AI message constructor does not know are dropped without
\* an error.
C27_ReassemblyKeepsOrderAndRuns ==
    reassembled # <<>> => ReassembledInOrder(reassembled[1])

\* every maximal run of pairs of the list has a content pair
RunsHaveContent ==
    \A k \in 1..Len(fragments) :
        RunEndsAt(k) =>
            \E j \in 1..Len(RunEndingAt(k)) : RunEndingAt(k)[j].key = "content"

\* on lists whose runs all have a content pair the reassembly is as specified
ReassemblyOfCompleteRuns ==
    (reassembled # <<>> /\ RunsHaveContent) => ReassembledInOrder(reassembled[1])

(***************************************************************************)
(* The collaboration nodes: one request after the other, over the updates  *)
(* of the supervisor node and of the two expert nodes.                     *)
(***************************************************************************)
\* a supervisor step: the user's turn, a first AI message, a tool result and
\* the final AI message
SupervisorUpdate ==
    UpdateEvent(
        <<NodeUpdate("supervisor", Updates(
            <<HumanMessage(StrC("hi")), AIMessage(StrC("a")),
              ToolMessage(StrC("6"), "multiply", "call_1"), AIMessage(StrC("b")),
              ToolMessage(StrC("7"), "add", "call_2")>>))>>)

\* a supervisor step whose only AI message is its only message
SupervisorSingleUpdate ==
    UpdateEvent(<<NodeUpdate("supervisor", Updates(<<AIMessage(StrC("a"))>>))>>)

\* a supervisor step without any AI message
SupervisorToolResultsUpdate ==
    UpdateEvent(
        <<NodeUpdate("supervisor", Updates(
            <<ToolMessage(StrC("6"), "multiply", "call_1"),
              ToolMessage(StrC("7"), "add", "call_2")>>))>>)

\* the supervisor node ran and returned no update
SupervisorNoUpdate == UpdateEvent(<<NodeUpdate("supervisor", NoUpdates)>>)

\* an expert's answer: an AI message that still has its tool calls, then more
ExpertUpdate ==
    UpdateEvent(
        <<NodeUpdate("math_expert", Updates(
            <<[AIMessage(StrC("42")) EXCEPT !.tool_calls = <<CallTool>>],
              AIMessage(StrC("x"))>>))>>)

\* an expert's answer with list content
ExpertListUpdate ==
    UpdateEvent(
        <<NodeUpdate("research_expert", Updates(
            <<AIMessage(ListC(<<DictItem("text", "found"), StrItem("!")>>))>>))>>)

CollaborationEvents ==
    { SupervisorUpdate, SupervisorSingleUpdate, SupervisorToolResultsUpdate,
      SupervisorNoUpdate, ExpertUpdate, ExpertListUpdate, EmptyExpertUpdate,
      ToolCallUpdate }

CollaborationNext ==
    \/ StartRequest(TrackerRequests, MaxRequests)
    \/ HandleInput
    \/ StateFetched
    \/ EngineYields(CollaborationEvents)
    \/ EngineRaises
    \/ EngineEnds
    \/ RequestDone

CollaborationSpec == Init /\ [][CollaborationNext]_vars

\* the engine event handled last is an update of one node, of one of the
\* given names
UpdateOfNode(names) ==
    /\ n_events > 0
    /\ stream_event # NotATuple
    /\ stream_event.mode = "updates"
    /\ Len(stream_event.event.nodes) = 1
    /\ stream_event.event.nodes[1].node \in names

\* the messages of that update
UpdateMessages ==
    LET updates == stream_event.event.nodes[1].updates
    IN  IF updates.k = "dict" /\ updates.has_messages THEN updates.messages ELSE <<>>

\* the one event written for the update is a message event of the given type
\* with the text of the given raw message
OneMessageEvent(type, raw) ==
    /\ Len(formatted_events) = 1
    /\ formatted_events[1].type = "message"
    /\ formatted_events[1].content.type = type
    /\ formatted_events[1].content.content =
           convert_message_content_to_string(raw.content).val

\* the AI messages of the update, in order
UpdateAIMessages == SelectSeq(UpdateMessages, IsAIMessage)

\* C28 as stated: for every supervisor update exactly one message event is
\* emitted for the node, and it is the last AI message of the update.
C28_SupervisorAlwaysOneEvent ==
    UpdateOfNode({"supervisor"}) =>
        /\ UpdateAIMessages # <<>>
        /\ OneMessageEvent("ai", UpdateAIMessages[Len(UpdateAIMessages)])

\* C28: a supervisor update that has at least one AI message gives exactly
\* one message event, the last AI message of the update, all other messages
\* of the node being omitted; an update without AI messages is not reduced:
\* one event for each of its messages, none for an empty or missing update.
C28_SupervisorReducedToLastAI ==
    UpdateOfNode({"supervisor"}) =>
        IF UpdateAIMessages # <<>>
        THEN OneMessageEvent("ai", UpdateAIMessages[Len(UpdateAIMessages)])
        ELSE /\ Len(formatted_events) = Len(UpdateMessages)
             /\ \A i \in 1..Len(UpdateMessages) :
                  formatted_events[i].content.content =
                      convert_message_content_to_string(UpdateMessages[i].content).val

\* of five supervisor messages only the last AI message, "b", was written
C28_Witness ==
    /\ pc = "streaming"
    /\ stream_event = SupervisorUpdate
    /\ Len(formatted_events) = 1
    /\ formatted_events[1].content.type = "ai"
    /\ formatted_events[1].content.content = "b"
    /\ Len(LastLines) = 1

\* C29: an update of an expert node that has a first message gets that
\* message re-tagged as a tool result - its content, the node name as name,
\* an empty tool_call_id - and written as one message event of type tool
\* with that content and without a tool_call_id field, never as an ai
\* message, whatever the message was and whatever followed it.
C29_ExpertFirstMessageAsToolResult ==
    (UpdateOfNode(ExpertNodes) /\ UpdateMessages # <<>>) =>
        LET node == stream_event.event.nodes[1].node
            retagged == NodeMessages(stream_event.event.nodes[1])
        IN  /\ retagged.ok
            /\ Len(retagged.val) = 1
            /\ retagged.val[1].cls = "ToolMessage"
            /\ retagged.val[1].content = UpdateMessages[1].content
            /\ retagged.val[1].name = node
            /\ retagged.val[1].tool_call_id = ""
            /\ OneMessageEvent("tool", UpdateMessages[1])
            /\ "tool_call_id" \notin DOMAIN formatted_events[1].content
            /\ "tool_calls" \notin DOMAIN formatted_events[1].content

\* the AI message of the math expert, tool calls and all, went out as a tool
\* result with the text "42" and nothing of what followed it
C29_Witness ==
    /\ pc = "streaming"
    /\ stream_event = ExpertUpdate
    /\ formatted_events =
           <<MessageEvent([type |-> "tool", content |-> "42",
                           run_id |-> configurable.run_id,
                           thread_id |-> configurable.thread_id,
                           session_id |-> configurable.thread_id])>>
    /\ LastLines = <<JsonLine(formatted_events[1])>>

(***************************************************************************)
(* Progress of a stream. The generator is suspended at three awaits: the   *)
(* acquisition of the agent (pc = "setup"), the lookup of the persisted    *)
(* state (pc = "lookup") and the next engine event (pc = "streaming").     *)
(* The lookup and the engine are taken to answer: the lookup returns or    *)
(* raises, the engine yields its next event, ends or raises.               *)
(***************************************************************************)
FairNext ==
    \/ StartRequest(TrackerRequests, MaxRequests)
    \/ SetupRaises
    \/ HandleInput
    \/ StateFetched
    \/ StateLookupRaises
    \/ EngineYields(SessionEvents)
    \/ EngineRaises
    \/ EngineEnds
    \/ ClientDisconnects
    \/ RequestDone

LookupAnswers == StateFetched \/ StateLookupRaises

EngineAnswers == EngineYields(SessionEvents) \/ EngineRaises \/ EngineEnds

\* the position of the stream and the number of engine events it has consumed:
\* every answer of the lookup or of the engine changes one of the two
progress_vars == <<pc, n_events>>

FairSpec ==
    /\ Init
    /\ [][FairNext]_vars
    /\ WF_progress_vars(LookupAnswers)
    /\ WF_progress_vars(EngineAnswers)

\* the states of one stream: INIT is "setup", RESOLVING_IDENTITY is "lookup",
\* RESUMING or FRESH_TURN is the input chosen on the way to "streaming",
\* COMPLETED and FAILED are "done" without and with a failure
StepsInOrder ==
    \/ pc = "idle" /\ pc' = "setup"
    \/ pc = "setup" /\ pc' = "lookup"
    \/ /\ pc = "lookup" /\ pc' = "streaming"
       /\ engine_input' \in {ResumeCommand(request.message), FreshTurn(request.message)}
    \/ pc = "streaming" /\ pc' = "done"
    \/ pc \in {"setup", "lookup"} /\ pc' = "done" /\ failure' # "none"
    \/ pc \in {"setup", "lookup", "streaming"} /\ pc' = "cancelled"
    \/ pc \in {"done", "cancelled"} /\ pc' = "idle"

MarkerIsLast == out # <<>> /\ out[Len(out)] = DoneLine

====
